---------------------------- MODULE Spec2Model ----------------------------
(***************************************************************************)
(* A model of the OpenSandbox lifecycle server.                            *)
(*                                                                         *)
(*   - WorkloadInformer (server/src/services/k8s/informer.py): the         *)
(*     list-then-watch cache, its background thread _run, the readers      *)
(*     (get) and the writers (update_cache), against a model of the        *)
(*     cluster API server it lists and watches.                            *)
(*   - The sandbox lifecycle routes (server/src/api/lifecycle.py) in       *)
(*     front of the sandbox service.                                       *)
(***************************************************************************)
EXTENDS Integers, Sequences, FiniteSets, TLC

(***************************************************************************)
(* Bounds of the model.                                                    *)
(***************************************************************************)
\* The runtime performs at most MaxRV - 1 mutations (resourceVersions 1..MaxRV).
MaxRV == 3
\* At most MaxFails list/watch calls fail in a row (SpecBackoff), at most
\* MaxFailsCore in the other specifications (non-410 failures).
MaxFails == 7
MaxFailsCore == 2
\* resourceVersions drawn for the inputs of the event handler (SpecEv).
MaxEvRV == 2
\* The clock of the sandbox service runs from 0 to MaxTime.
MaxTime == 1
\* Timeouts asked for at creation: 1..MaxTimeout.
MaxTimeout == 1
\* ready_timeout asked for, in polling intervals: 1..MaxReadyTimeout.
MaxReadyTimeout == 6
\* Segments of a request path: 1..MaxSegs.
MaxSegs == 5
\* Header lines of a proxied request: 0..MaxHeaders.
MaxHeaders == 2

(***************************************************************************)
(* Objects, as far as the informer looks at them: metadata.name and        *)
(* metadata.resourceVersion.  NoName stands for a missing or empty name,   *)
(* rv = 0 for a missing or empty resourceVersion (both falsy in Python).   *)
(***************************************************************************)
NameOrder == <<"a", "b">>
Names == {NameOrder[i] : i \in 1..Len(NameOrder)}
NoName == ""
NoneObj == [name |-> NoName, rv |-> 0]
NoRV == 0

MkObj(n, r) == [name |-> n, rv |-> r]

\* dict.get(name): the entry, or None
Lookup(c, n) == IF n \in DOMAIN c THEN c[n] ELSE NoneObj
\* dict[name] = obj
Put(c, n, o) == [m \in (DOMAIN c) \cup {n} |-> IF m = n THEN o ELSE c[m]]
\* dict.pop(name, None)
Pop(c, n) == [m \in (DOMAIN c) \ {n} |-> c[m]]
EmptyCache == [m \in {} |-> NoneObj]

VARIABLES
    \* ---- WorkloadInformer fields (informer.py 41-55)
    cache,              \* self._cache
    resource_version,   \* self._resource_version (NoRV = None)
    has_synced,         \* self._has_synced
    stop_event,         \* self._stop_event.is_set()
    enable_watch,       \* self.enable_watch
    lock,               \* owner of self._lock: "free" or "informer"
    \* ---- the background thread _run
    pc,                 \* position of the thread in _run
    backoff,            \* local variable backoff of _run
    listResp,           \* resp of _full_resync: [items, rv]
    new_cache,          \* local new_cache of _full_resync
    idx,                \* items of resp already visited by the for loop
    wpos,               \* resourceVersion up to which the watch session has streamed
    wsynth,             \* initial ADDED events still to stream (watch without cursor)
    \* ---- the cluster API server
    srvObjs,            \* name -> object, the runtime's objects
    srvRV,              \* the collection resourceVersion
    history,            \* the events the server has recorded, in order
    compactRV,          \* events up to this resourceVersion are compacted away
    \* ---- other threads of the server
    provObj,            \* object a provider got back from a write, not yet upserted
    \* ---- history variables
    fails,              \* non-410 failures since the last success
    waited,             \* duration of the backoff wait in progress / last made
    gone,               \* a 410 was handled and no list has completed since
    resynced,           \* a full resync completed since the last resync-period wait
    ev,                 \* last watch event handed to _handle_event
    evn,                \* parity of the number of events handled
    \* ---- the sandbox service behind the lifecycle routes
    sb,                 \* sandbox id -> the runtime's workload for it
    now,                \* the clock
    resp,               \* last response of a lifecycle route: [op, id, status,
                        \* code, rt (the operation it issued to the runtime), n],
                        \* with t the expiration a renew asked for
    \* ---- concurrent mutating calls
    cl,                 \* client -> its call: [pc, op, id, t, status, code, w]
    mutex,              \* sandbox id -> the client holding its mutex, or ""
    \* ---- the health probe of sandbox s1
    probe,              \* [pc, http, elapsed, healthy]
    \* ---- sandbox_create of the MCP server
    rd,                 \* [pc, req_skip, skip, rto, elapsed, probes, got200,
                        \*  stored]
    \* ---- AuthMiddleware
    au,                 \* [constructed, api_key (config.server.api_key),
                        \*  valid_api_keys, served, path, headers,
                        \*  status, code, calls]
    \* ---- reverse proxy, helpers, metadata
    px,                 \* proxy_sandbox_endpoint_request: the request it served
                        \* and what it did with it
    calc,               \* [op, args, out]: one application of a helper
    md,                 \* [pc, metadata, accepted, labels, returned]: a create
                        \* and the get that follows it
    \* ---- objects shared between callers
    tm,                 \* the template manager and the objects it shares with
                        \* its callers: [heap, template, loaded, held, calls]
    reg,                \* ServerState of the MCP server and its tool calls
    bs                  \* the body streams of one proxied request

infVars == <<cache, resource_version, has_synced, stop_event, enable_watch, lock,
             pc, backoff, listResp, new_cache, idx, wpos, wsynth,
             srvObjs, srvRV, history, compactRV, provObj,
             fails, waited, gone, resynced, ev, evn>>

lcVars == <<sb, now, resp>>

mxVars == <<cl, mutex>>

hVars == <<probe>>

rdVars == <<rd>>

auVars == <<au>>

pxVars == <<px>>

fnVars == <<calc>>

mdVars == <<md>>

objVars == <<tm, reg, bs>>

edgeVars == <<pxVars, fnVars, mdVars, objVars>>

\* everything added to the informer and the sandbox service
extVars == <<mxVars, hVars, rdVars, auVars, edgeVars>>

\* everything that is not the informer's
restVars == <<lcVars, extVars>>

vars == <<infVars, lcVars, extVars>>

(***************************************************************************)
(* _handle_event (informer.py 178-201) as a function of the cache, the     *)
(* cursor and the event: the new cache and cursor.                         *)
(***************************************************************************)
EventTypes == {"ADDED", "MODIFIED", "DELETED", "BOOKMARK"}

MkEvent(t, o) == [type |-> t, hasObj |-> TRUE, obj |-> o]
\* an event whose "object" is None
EventNoObj(t) == [type |-> t, hasObj |-> FALSE, obj |-> NoneObj]

\* A variant of _handle_event that moves the cursor only when it upserts.
HandleEventCursorOnUpsert(c, rv, e) ==
    IF ~e.hasObj THEN [cache |-> c, rv |-> rv]
    ELSE IF e.obj.name = NoName THEN [cache |-> c, rv |-> rv]
    ELSE IF e.type = "DELETED" THEN [cache |-> Pop(c, e.obj.name), rv |-> rv]
    ELSE [cache |-> Put(c, e.obj.name, e.obj),
          rv |-> IF e.obj.rv # NoRV THEN e.obj.rv ELSE rv]

HandleEvent(c, rv, e) ==
    IF ~e.hasObj THEN [cache |-> c, rv |-> rv]
    ELSE IF e.obj.name = NoName THEN [cache |-> c, rv |-> rv]
    ELSE [cache |-> IF e.type = "DELETED" THEN Pop(c, e.obj.name)
                    ELSE Put(c, e.obj.name, e.obj),
          rv |-> IF e.obj.rv # NoRV THEN e.obj.rv ELSE rv]

(***************************************************************************)
(* update_cache (informer.py 86-96) as a function of the cache, the cursor *)
(* and the object.                                                         *)
(***************************************************************************)
UpdateCacheOp(c, rv, o) ==
    IF o.name = NoName THEN [cache |-> c, rv |-> rv]
    ELSE [cache |-> Put(c, o.name, o),
          rv |-> IF o.rv # NoRV THEN o.rv ELSE rv]

(***************************************************************************)
(* The state after WorkloadInformer.__init__ (informer.py 41-55), with an  *)
(* empty namespace on the API server and the thread not yet started.       *)
(***************************************************************************)
NoResp == [items |-> <<>>, rv |-> NoRV]

\* No sandbox has been created and no route has been called.
Ids == {"s1", "s2"}
NoWorkload == [exists |-> FALSE, gone |-> FALSE, id |-> "", state |-> "",
               reason |-> "", created_at |-> 0, expires_at |-> 0]

Clients == {"c1", "c2"}
NoCall == [pc |-> "idle", op |-> "", id |-> "", t |-> 0, status |-> 0,
           code |-> "", w |-> NoWorkload]

InitMx ==
    /\ cl = [c \in Clients |-> NoCall]
    /\ mutex = [i \in Ids |-> ""]

NoProbe == [pc |-> "idle", http |-> "none", elapsed |-> 0, healthy |-> FALSE]

InitHealth == probe = NoProbe

NoCreate == [pc |-> "idle", req_skip |-> FALSE, skip |-> FALSE, rto |-> 0,
             elapsed |-> 0, probes |-> 0, got200 |-> FALSE, stored |-> FALSE]

InitReady == rd = NoCreate

\* Strings of the middleware are sequences of characters and words; a
\* request that has not arrived has no path.
NoMiddleware == [constructed |-> FALSE, api_key |-> <<>>, valid_api_keys |-> {},
                 served |-> FALSE,
                 path |-> <<>>, headers |-> <<>>, status |-> 0, code |-> "",
                 calls |-> 0]

InitAuth == au = NoMiddleware

NoProxied == [served |-> FALSE, method |-> "", items |-> <<>>, cfg |-> <<>>,
              port |-> 0, outcome |-> "", target |-> <<>>, sent |-> FALSE,
              headers |-> <<>>, status |-> 0]

NoCalc == [op |-> "", args |-> <<>>, out |-> <<>>]

\* concurrent tool calls of the MCP server
MaxTasks == 3

Tasks == 1..MaxTasks

RegistryIds == {"sbx_1", "sbx_2"}

IdleTask == [pc |-> "idle", sandbox_id |-> "", sandbox |-> 0]

\* ServerState() with no sandbox registered; connects counts the
\* Sandbox.connect calls per id, replaced holds the Sandbox objects that an
\* assignment to sandboxes[id] has dropped, objects numbers the Sandbox objects
NoRegistry == [sandboxes |-> <<>>, task |-> [t \in Tasks |-> IdleTask], connects |-> [id \in RegistryIds |-> 0], replaced |-> {}, objects |-> 0]

\* no request is being proxied: body and wire are the chunks still to come
\* from the client and from the sandbox, sent and replied the bytes the two
\* have put on the wire, upstream and client the bytes delivered to them
NoStream == [pc |-> "idle", body |-> <<>>, sent |-> <<>>, upstream |-> <<>>, encoding |-> "", wire |-> <<>>, replied |-> <<>>, client |-> <<>>]

NoMetadata == [pc |-> "idle", metadata |-> <<>>, accepted |-> FALSE,
               labels |-> <<>>, returned |-> <<>>]

\* no template loaded, no object allocated
NoManager == [heap |-> <<>>, template |-> <<>>, loaded |-> <<>>, held |-> {},
              calls |-> 0, muts |-> 0, started |-> FALSE]

InitObj == tm = NoManager /\ reg = NoRegistry /\ bs = NoStream

InitEdge == px = NoProxied /\ calc = NoCalc /\ md = NoMetadata /\ InitObj

InitExt == InitMx /\ InitHealth /\ InitReady /\ InitAuth /\ InitEdge

NoResponse == [op |-> "", id |-> "", t |-> 0, status |-> 0, code |-> "",
               rt |-> "", n |-> 0]

InitLc ==
    /\ sb = [i \in Ids |-> NoWorkload]
    /\ now = 0
    /\ resp = NoResponse
    /\ InitExt

InitInformer ==
    /\ cache = EmptyCache
    /\ resource_version = NoRV
    /\ has_synced = FALSE
    /\ stop_event = FALSE
    /\ enable_watch \in BOOLEAN
    /\ lock = "free"
    /\ pc = "idle"
    /\ backoff = 1
    /\ listResp = NoResp
    /\ new_cache = EmptyCache
    /\ idx = 0
    /\ wpos = 0
    /\ wsynth = EmptyCache
    /\ srvObjs = EmptyCache
    /\ srvRV = 1
    /\ history = <<>>
    /\ compactRV = 1
    /\ provObj = NoneObj
    /\ fails = 0
    /\ waited = 0
    /\ gone = FALSE
    /\ resynced = FALSE
    /\ ev = EventNoObj("ADDED")
    /\ evn = 0

Init == InitInformer /\ InitLc

threadVars == <<pc, backoff, listResp, new_cache, idx, wpos, wsynth>>
serverVars == <<srvObjs, srvRV, history, compactRV>>
ghostVars == <<fails, waited, gone, resynced>>
evVars == <<ev, evn>>

Min(x, y) == IF x <= y THEN x ELSE y

(***************************************************************************)
(* The cluster API server: objects are added, modified and deleted; every  *)
(* change gets the next resourceVersion and is recorded as a watch event.  *)
(***************************************************************************)
Mutate(t, n) ==
    LET o == MkObj(n, srvRV + 1) IN
    /\ srvRV < MaxRV
    /\ srvRV' = srvRV + 1
    /\ history' = Append(history, MkEvent(t, o))
    /\ srvObjs' = IF t = "DELETED" THEN Pop(srvObjs, n) ELSE Put(srvObjs, n, o)
    /\ UNCHANGED compactRV

RuntimeAdd(n) ==
    /\ n \notin DOMAIN srvObjs
    /\ Mutate("ADDED", n)
    /\ UNCHANGED <<cache, resource_version, has_synced, stop_event, enable_watch,
                   lock, threadVars, provObj, ghostVars, evVars, restVars>>

RuntimeModify(n) ==
    /\ n \in DOMAIN srvObjs
    /\ Mutate("MODIFIED", n)
    /\ UNCHANGED <<cache, resource_version, has_synced, stop_event, enable_watch,
                   lock, threadVars, provObj, ghostVars, evVars, restVars>>

RuntimeDelete(n) ==
    /\ n \in DOMAIN srvObjs
    /\ Mutate("DELETED", n)
    /\ UNCHANGED <<cache, resource_version, has_synced, stop_event, enable_watch,
                   lock, threadVars, provObj, ghostVars, evVars, restVars>>

\* The server drops the events it has recorded so far: a watch from an older
\* resourceVersion is answered 410.
Compact ==
    /\ compactRV < srvRV
    /\ compactRV' = srvRV
    /\ UNCHANGED <<srvObjs, srvRV, history>>
    /\ UNCHANGED <<cache, resource_version, has_synced, stop_event, enable_watch,
                   lock, threadVars, provObj, ghostVars, evVars, restVars>>

(***************************************************************************)
(* Other threads of the server.                                            *)
(***************************************************************************)
\* start() (informer.py 62-72): the background thread begins _run.
Start ==
    /\ pc = "idle"
    /\ pc' = "top"
    /\ backoff' = 1
    /\ UNCHANGED <<listResp, new_cache, idx, wpos, wsynth>>
    /\ UNCHANGED <<cache, resource_version, has_synced, stop_event, enable_watch,
                   lock, serverVars, provObj, ghostVars, evVars, restVars>>

\* stop() (informer.py 74-76)
Stop ==
    /\ pc # "idle"
    /\ ~stop_event
    /\ stop_event' = TRUE
    /\ UNCHANGED <<cache, resource_version, has_synced, enable_watch,
                   lock, threadVars, serverVars, provObj, ghostVars, evVars, restVars>>

\* get(name) (informer.py 78-84): under the lock, the entry or None.
GetOp(c, n) == LET obj == Lookup(c, n) IN IF obj # NoneObj THEN obj ELSE NoneObj

\* A reader takes the lock, reads and releases it: it changes nothing, and it
\* is held up exactly while another thread owns the lock.
Get(n) ==
    /\ lock = "free"
    /\ GetOp(cache, n) \in {NoneObj} \cup {MkObj(n, r) : r \in 0..MaxRV}
    /\ UNCHANGED <<cache, resource_version, has_synced, stop_event, enable_watch,
                   lock, threadVars, serverVars, provObj, ghostVars, evVars, restVars>>

\* A provider writes an object to the runtime (create or patch) and holds the
\* object the API server returned.
ProviderWrite(n) ==
    /\ provObj = NoneObj
    /\ Mutate(IF n \in DOMAIN srvObjs THEN "MODIFIED" ELSE "ADDED", n)
    /\ provObj' = MkObj(n, srvRV + 1)
    /\ UNCHANGED <<cache, resource_version, has_synced, stop_event, enable_watch,
                   lock, threadVars, ghostVars, evVars, restVars>>

\* ... and then upserts it: update_cache(obj) (informer.py 86-96).
UpdateCache ==
    /\ provObj # NoneObj
    /\ lock = "free"
    /\ LET r == UpdateCacheOp(cache, resource_version, provObj) IN
        /\ cache' = r.cache
        /\ resource_version' = r.rv
    /\ provObj' = NoneObj
    /\ UNCHANGED <<has_synced, stop_event, enable_watch,
                   lock, threadVars, serverVars, ghostVars, evVars, restVars>>

(***************************************************************************)
(* The background thread: _run (informer.py 98-130).                       *)
(***************************************************************************)
\* Lines 100-103: the loop test, then the has_synced test; a thread that is
\* not synced issues the list request of _full_resync (line 134).
Top ==
    /\ pc = "top"
    /\ pc' = IF stop_event THEN "done"
             ELSE IF ~has_synced THEN "list"
             ELSE "synced"
    /\ UNCHANGED <<backoff, listResp, new_cache, idx, wpos, wsynth>>
    /\ UNCHANGED <<cache, resource_version, has_synced, stop_event, enable_watch,
                   lock, serverVars, provObj, ghostVars, evVars, restVars>>

\* The items of a list response: the runtime's objects, in name order.
RECURSIVE ItemsFrom(_, _)
ItemsFrom(objs, i) ==
    IF i > Len(NameOrder) THEN <<>>
    ELSE (IF NameOrder[i] \in DOMAIN objs THEN <<objs[NameOrder[i]]>> ELSE <<>>)
         \o ItemsFrom(objs, i + 1)

\* Lines 134-147: the list call returns; items and resourceVersion are taken
\* from it and new_cache starts empty.
ListReturn ==
    /\ pc = "list"
    /\ listResp' = [items |-> ItemsFrom(srvObjs, 1), rv |-> srvRV]
    /\ new_cache' = EmptyCache
    /\ idx' = 0
    /\ pc' = "build"
    /\ UNCHANGED <<backoff, wpos, wsynth>>
    /\ UNCHANGED <<cache, resource_version, has_synced, stop_event, enable_watch,
                   lock, serverVars, provObj, ghostVars, evVars, restVars>>

\* A variant of the for loop that fills self._cache itself instead of a new map.
BuildStepInPlace ==
    /\ pc = "build"
    /\ IF idx < Len(listResp.items)
       THEN LET item == listResp.items[idx + 1] IN
            /\ cache' = IF item.name # NoName
                        THEN Put(IF idx = 0 THEN EmptyCache ELSE cache, item.name, item)
                        ELSE cache
            /\ new_cache' = IF item.name # NoName
                            THEN Put(new_cache, item.name, item)
                            ELSE new_cache
            /\ idx' = idx + 1
            /\ pc' = pc
       ELSE /\ pc' = "swap"
            /\ UNCHANGED <<cache, new_cache, idx>>
    /\ UNCHANGED <<backoff, listResp, wpos, wsynth>>
    /\ UNCHANGED <<resource_version, has_synced, stop_event, enable_watch,
                   lock, serverVars, provObj, ghostVars, evVars, restVars>>

\* Lines 148-151: one iteration of the for loop, off the lock; after the last
\* item the thread is at the with statement of line 153.
BuildStep ==
    /\ pc = "build"
    /\ IF idx < Len(listResp.items)
       THEN LET item == listResp.items[idx + 1] IN
            /\ new_cache' = IF item.name # NoName
                            THEN Put(new_cache, item.name, item)
                            ELSE new_cache
            /\ idx' = idx + 1
            /\ pc' = pc
       ELSE /\ pc' = "swap"
            /\ UNCHANGED <<new_cache, idx>>
    /\ UNCHANGED <<backoff, listResp, wpos, wsynth>>
    /\ UNCHANGED <<cache, resource_version, has_synced, stop_event, enable_watch,
                   lock, serverVars, provObj, ghostVars, evVars, restVars>>

\* Line 153: the lock is taken.
SwapAcquire ==
    /\ pc = "swap"
    /\ lock = "free"
    /\ lock' = "informer"
    /\ pc' = "swapLocked"
    /\ UNCHANGED <<backoff, listResp, new_cache, idx, wpos, wsynth>>
    /\ UNCHANGED <<cache, resource_version, has_synced, stop_event, enable_watch,
                   serverVars, provObj, ghostVars, evVars, restVars>>

\* A variant of the resync that leaves the backoff of _run as it is.
SwapCommitNoReset ==
    /\ pc = "swapLocked"
    /\ cache' = new_cache
    /\ resource_version' = IF listResp.rv # NoRV THEN listResp.rv ELSE resource_version
    /\ has_synced' = TRUE
    /\ lock' = "free"
    /\ pc' = "synced"
    /\ fails' = 0
    /\ gone' = FALSE
    /\ resynced' = TRUE
    /\ UNCHANGED <<backoff, listResp, new_cache, idx, wpos, wsynth>>
    /\ UNCHANGED <<stop_event, enable_watch, serverVars, provObj,
                   waited, evVars, restVars>>

\* Lines 154-157, the release of the lock, and line 104 of _run.
SwapCommit ==
    /\ pc = "swapLocked"
    /\ cache' = new_cache
    /\ resource_version' = IF listResp.rv # NoRV THEN listResp.rv ELSE resource_version
    /\ has_synced' = TRUE
    /\ lock' = "free"
    /\ backoff' = 1
    /\ pc' = "synced"
    /\ fails' = 0
    /\ gone' = FALSE
    /\ resynced' = TRUE
    /\ UNCHANGED <<listResp, new_cache, idx, wpos, wsynth>>
    /\ UNCHANGED <<stop_event, enable_watch, serverVars, provObj,
                   waited, evVars, restVars>>

\* Lines 106-110 and 161-171: in degraded mode the thread waits for the resync
\* period; otherwise it opens a watch session from self._resource_version.
\* A watch without resourceVersion starts at the most recent state: the server
\* first streams an ADDED event for every existing object.
Synced ==
    /\ pc = "synced"
    /\ IF ~enable_watch
       THEN /\ pc' = "resync_wait"
            /\ UNCHANGED <<wpos, wsynth>>
       ELSE /\ pc' = "watching"
            /\ wpos' = IF resource_version # NoRV THEN resource_version ELSE srvRV
            /\ wsynth' = IF resource_version # NoRV THEN EmptyCache ELSE srvObjs
    /\ UNCHANGED <<backoff, listResp, new_cache, idx>>
    /\ UNCHANGED <<cache, resource_version, has_synced, stop_event, enable_watch,
                   lock, serverVars, provObj, ghostVars, evVars, restVars>>

\* Lines 107-108: self._stop_event.wait(self.resync_period_seconds) returns
\* (the period is over, or stop() was called) and the loop continues.
ResyncWaitReturn ==
    /\ pc = "resync_wait"
    /\ pc' = "top"
    /\ resynced' = FALSE
    /\ UNCHANGED <<backoff, listResp, new_cache, idx, wpos, wsynth>>
    /\ UNCHANGED <<cache, resource_version, has_synced, stop_event, enable_watch,
                   lock, serverVars, provObj, fails, waited, gone, evVars, restVars>>

\* The next event of the watch session: a pending initial ADDED event, or the
\* recorded event that follows the session's position.
HasNextEvent == wsynth # EmptyCache \/ (wpos < srvRV /\ wpos >= compactRV)

\* Lines 163-174 with stop not set: the stream yields an event and
\* _handle_event applies it under the lock.
WatchEvent ==
    /\ pc = "watching"
    /\ ~stop_event
    /\ lock = "free"
    /\ HasNextEvent
    /\ \E e \in IF wsynth # EmptyCache
                THEN {MkEvent("ADDED", wsynth[n]) : n \in DOMAIN wsynth}
                ELSE {history[wpos]} :
        /\ LET r == HandleEvent(cache, resource_version, e) IN
            /\ cache' = r.cache
            /\ resource_version' = r.rv
        /\ wsynth' = IF wsynth # EmptyCache THEN Pop(wsynth, e.obj.name) ELSE wsynth
        /\ wpos' = IF wsynth # EmptyCache THEN wpos ELSE wpos + 1
    /\ UNCHANGED <<pc, backoff, listResp, new_cache, idx>>
    /\ UNCHANGED <<has_synced, stop_event, enable_watch,
                   lock, serverVars, provObj, ghostVars, evVars, restVars>>

\* Lines 172-173, 176 and 111: an event arrives after stop(): the loop breaks
\* without handling it and the session ends without error.
WatchBreak ==
    /\ pc = "watching"
    /\ stop_event
    /\ HasNextEvent
    /\ pc' = "top"
    /\ backoff' = 1
    /\ fails' = 0
    /\ UNCHANGED <<listResp, new_cache, idx, wpos, wsynth>>
    /\ UNCHANGED <<cache, resource_version, has_synced, stop_event, enable_watch,
                   lock, serverVars, provObj, waited, gone, resynced, evVars, restVars>>

\* A variant of the clean end of a session that asks for a new list.
WatchTimeoutUnsync ==
    /\ pc = "watching"
    /\ pc' = "top"
    /\ backoff' = 1
    /\ fails' = 0
    /\ has_synced' = FALSE
    /\ UNCHANGED <<listResp, new_cache, idx, wpos, wsynth>>
    /\ UNCHANGED <<cache, resource_version, stop_event, enable_watch,
                   lock, serverVars, provObj, waited, gone, resynced, evVars, restVars>>

\* Lines 163-171, 176 and 111: the session reaches watch_timeout_seconds and
\* the stream ends without error.
WatchTimeout ==
    /\ pc = "watching"
    /\ pc' = "top"
    /\ backoff' = 1
    /\ fails' = 0
    /\ UNCHANGED <<listResp, new_cache, idx, wpos, wsynth>>
    /\ UNCHANGED <<cache, resource_version, has_synced, stop_event, enable_watch,
                   lock, serverVars, provObj, waited, gone, resynced, evVars, restVars>>

\* A variant of the 410 branch that drops the cursor and stays synced.
On410KeepSynced ==
    /\ resource_version' = NoRV
    /\ UNCHANGED has_synced
    /\ pc' = "top"
    /\ UNCHANGED backoff

\* Lines 112-116: the session's resourceVersion is compacted away, the stream
\* raises ApiException(status=410).
On410 ==
    /\ resource_version' = NoRV
    /\ has_synced' = FALSE
    /\ pc' = "top"
    /\ UNCHANGED backoff

Watch410 ==
    /\ pc = "watching"
    /\ wsynth = EmptyCache
    /\ wpos < compactRV
    /\ On410
    /\ gone' = TRUE
    /\ UNCHANGED <<listResp, new_cache, idx, wpos, wsynth>>
    /\ UNCHANGED <<cache, stop_event, enable_watch,
                   lock, serverVars, provObj, fails, waited, resynced, evVars, restVars>>

\* Lines 117-123 and 124-130: any other failure.  The thread marks itself
\* not synced and waits min(backoff, 30.0) ...
MaxBackoff == 30

BackoffWait(b) == Min(b, MaxBackoff)

OnError ==
    /\ has_synced' = FALSE
    /\ waited' = BackoffWait(backoff)
    /\ pc' = "backoff_wait"
    /\ UNCHANGED backoff

WatchFail(cap) ==
    /\ pc = "watching"
    /\ fails < cap
    /\ OnError
    /\ fails' = fails + 1
    /\ UNCHANGED <<listResp, new_cache, idx, wpos, wsynth>>
    /\ UNCHANGED <<cache, resource_version, stop_event, enable_watch,
                   lock, serverVars, provObj, gone, resynced, evVars, restVars>>

ListFail(cap) ==
    /\ pc = "list"
    /\ fails < cap
    /\ OnError
    /\ fails' = fails + 1
    /\ UNCHANGED <<listResp, new_cache, idx, wpos, wsynth>>
    /\ UNCHANGED <<cache, resource_version, stop_event, enable_watch,
                   lock, serverVars, provObj, gone, resynced, evVars, restVars>>

\* ... and when the wait returns (time is up, or stop() was called) doubles
\* the backoff up to 30.0 (lines 123 and 130).
NextBackoff(b) == Min(b * 2, MaxBackoff)

BackoffReturn ==
    /\ pc = "backoff_wait"
    /\ backoff' = NextBackoff(backoff)
    /\ pc' = "top"
    /\ UNCHANGED <<listResp, new_cache, idx, wpos, wsynth>>
    /\ UNCHANGED <<cache, resource_version, has_synced, stop_event, enable_watch,
                   lock, serverVars, provObj, ghostVars, evVars, restVars>>

Next ==
    \/ Start
    \/ Stop
    \/ \E n \in Names : Get(n)
    \/ \E n \in Names : ProviderWrite(n)
    \/ UpdateCache
    \/ \E n \in Names : RuntimeAdd(n)
    \/ \E n \in Names : RuntimeModify(n)
    \/ \E n \in Names : RuntimeDelete(n)
    \/ Compact
    \/ Top
    \/ ListReturn
    \/ ListFail(MaxFailsCore)
    \/ BuildStep
    \/ SwapAcquire
    \/ SwapCommit
    \/ Synced
    \/ ResyncWaitReturn
    \/ WatchEvent
    \/ WatchBreak
    \/ WatchTimeout
    \/ Watch410
    \/ WatchFail(MaxFailsCore)
    \/ BackoffReturn

Spec == Init /\ [][Next]_vars

(***************************************************************************)
(* The informer with its thread scheduled fairly: every step of _run that  *)
(* stays possible is taken, a watch session that is opened again and again *)
(* streams the events that are pending, and a provider that holds an       *)
(* object gets to upsert it.                                               *)
(***************************************************************************)
FairSpec ==
    /\ Init
    /\ [][Next]_vars
    /\ WF_vars(Start)
    /\ WF_vars(Top)
    /\ WF_vars(ListReturn)
    /\ WF_vars(BuildStep)
    /\ WF_vars(SwapAcquire)
    /\ WF_vars(SwapCommit)
    /\ WF_vars(Synced)
    /\ WF_vars(ResyncWaitReturn)
    /\ WF_vars(BackoffReturn)
    /\ WF_vars(WatchTimeout)
    /\ SF_vars(WatchEvent)
    /\ SF_vars(Watch410)
    /\ WF_vars(UpdateCache)

(***************************************************************************)
(* The retry behaviour of _run alone: the thread against an API server     *)
(* whose calls fail up to MaxFails times in a row.                         *)
(***************************************************************************)
NextRetry ==
    \/ Start
    \/ Stop
    \/ \E n \in Names : RuntimeAdd(n)
    \/ \E n \in Names : RuntimeDelete(n)
    \/ Compact
    \/ Top
    \/ ListReturn
    \/ ListFail(MaxFails)
    \/ BuildStep
    \/ SwapAcquire
    \/ SwapCommit
    \/ Synced
    \/ ResyncWaitReturn
    \/ WatchEvent
    \/ WatchBreak
    \/ WatchTimeout
    \/ Watch410
    \/ WatchFail(MaxFails)
    \/ BackoffReturn

SpecBackoff == Init /\ [][NextRetry]_vars

(***************************************************************************)
(* _handle_event on its own: any cache and cursor the informer can hold,   *)
(* any event a stream can yield.                                           *)
(***************************************************************************)
EvObjs == {MkObj(n, r) : n \in Names \cup {NoName}, r \in 0..MaxEvRV}
AllEvents == {MkEvent(t, o) : t \in EventTypes, o \in EvObjs}
                \cup {EventNoObj(t) : t \in EventTypes}
AllCaches ==
    UNION {[S -> {o \in EvObjs : o.name # NoName}] : S \in SUBSET Names}

InitEv ==
    /\ cache \in {c \in AllCaches : \A n \in DOMAIN c : c[n].name = n}
    /\ resource_version \in 0..MaxEvRV
    /\ has_synced = TRUE
    /\ stop_event = FALSE
    /\ enable_watch = TRUE
    /\ lock = "free"
    /\ pc = "watching"
    /\ backoff = 1
    /\ listResp = NoResp
    /\ new_cache = EmptyCache
    /\ idx = 0
    /\ wpos = 0
    /\ wsynth = EmptyCache
    /\ srvObjs = EmptyCache
    /\ srvRV = 1
    /\ history = <<>>
    /\ compactRV = 1
    /\ provObj = NoneObj
    /\ fails = 0
    /\ waited = 0
    /\ gone = FALSE
    /\ resynced = TRUE
    /\ ev = EventNoObj("ADDED")
    /\ evn = 0
    /\ InitLc

\* _handle_event(event), lines 178-201
ApplyEvent(e) ==
    /\ lock = "free"
    /\ LET r == HandleEvent(cache, resource_version, e) IN
        /\ cache' = r.cache
        /\ resource_version' = r.rv
    /\ ev' = e
    /\ evn' = 1 - evn
    /\ UNCHANGED <<has_synced, stop_event, enable_watch, lock, threadVars,
                   serverVars, provObj, ghostVars, restVars>>

NextEv == \E e \in AllEvents : ApplyEvent(e)

SpecEv == InitEv /\ [][NextEv]_vars

(***************************************************************************)
(*                 The sandbox service and its routes                      *)
(*                                                                         *)
(* The routes of api/lifecycle.py hand every call to the sandbox service   *)
(* and answer with what it returns or raises.  The service and the runtime *)
(* behind it follow the state model of the design (sections 3, 4.1, 4.2).  *)
(***************************************************************************)
States == {"Creating", "Running", "Pausing", "Paused", "Resuming", "Stopping",
           "Terminated", "Failed", "Unknown"}
Terminal == {"Terminated", "Failed"}

\* The legal transitions: source -> allowed targets.
Legal ==
    [s \in States |->
        CASE s = "Creating" -> {"Running", "Failed", "Terminated"}
          [] s = "Running"  -> {"Pausing", "Stopping", "Failed", "Unknown"}
          [] s = "Pausing"  -> {"Paused", "Failed", "Running"}
          [] s = "Paused"   -> {"Resuming", "Stopping", "Failed"}
          [] s = "Resuming" -> {"Running", "Failed", "Paused"}
          [] s = "Stopping" -> {"Terminated", "Failed"}
          [] s = "Unknown"  -> {"Running", "Stopping", "Failed", "Terminated"}
          [] OTHER          -> {}]

LegalTargets(s) == IF s \in States THEN Legal[s] ELSE {}

\* The state a client mutation asks for.
Target(op) ==
    CASE op = "pause"  -> "Pausing"
      [] op = "resume" -> "Resuming"
      [] op = "delete" -> "Stopping"
      [] OTHER         -> ""

\* What the runtime's own events can make of a workload.
RuntimeTargets(s) == LegalTargets(s) \ {"Pausing", "Resuming", "Stopping"}

\* The reason recorded with a state.
ReasonOf(s) ==
    CASE s = "Creating" -> "Created"
      [] s \in {"Pausing", "Resuming", "Stopping"} -> "ClientRequest"
      [] OTHER -> "RuntimeEvent"

\* _build_sandbox_from_workload (agent_sandbox.py 83-140): the sandbox a
\* client is shown, read off the workload.
BuildSandboxFromWorkloadReason(w) ==
    [id |-> w.id, state |-> w.reason, reason |-> w.reason,
     created_at |-> w.created_at, expires_at |-> w.expires_at]

BuildSandboxFromWorkloadCreated(w) ==
    [id |-> w.id, state |-> w.state, reason |-> w.reason,
     created_at |-> w.created_at, expires_at |-> w.created_at]

BuildSandboxFromWorkload(w) ==
    [id |-> w.id, state |-> w.state, reason |-> w.reason,
     created_at |-> w.created_at, expires_at |-> w.expires_at]

\* ---- the service: what a call returns (status 0) or raises (status, code),
\* the workloads after it and the operation it issues to the runtime.
Returns(newsb, rtop) ==
    [status |-> 0, code |-> "", sb |-> newsb, rt |-> rtop]
Raises(st, code) ==
    [status |-> st, code |-> code, sb |-> sb, rt |-> ""]

SetState(id, st) ==
    [sb EXCEPT ![id].state = st, ![id].reason = ReasonOf(st)]

ServiceCreate(id, timeout) ==
    IF sb[id].exists
    THEN Returns(sb, "")
    ELSE LET w == [exists |-> TRUE, gone |-> FALSE, id |-> id,
                   state |-> "Creating", reason |-> ReasonOf("Creating"),
                   created_at |-> now, expires_at |-> now + timeout]
         IN Returns([sb EXCEPT ![id] = w], "create")

ServiceGet(id) ==
    IF ~sb[id].exists THEN Raises(404, "SANDBOX_NOT_FOUND")
    ELSE Returns(sb, "")

ServicePause(id) ==
    IF ~sb[id].exists THEN Raises(404, "SANDBOX_NOT_FOUND")
    ELSE IF sb[id].state # "Running" THEN Raises(409, "SANDBOX_NOT_RUNNING")
    ELSE Returns(SetState(id, "Pausing"), "pause")

ServiceResume(id) ==
    IF ~sb[id].exists THEN Raises(404, "SANDBOX_NOT_FOUND")
    ELSE IF sb[id].state # "Paused" THEN Raises(409, "SANDBOX_NOT_PAUSED")
    ELSE Returns(SetState(id, "Resuming"), "resume")

ServiceDelete(id) ==
    IF ~sb[id].exists THEN Raises(404, "SANDBOX_NOT_FOUND")
    ELSE IF sb[id].state \notin {"Running", "Paused", "Unknown"}
         THEN Raises(409, "STATE_CONFLICT")
    ELSE Returns(SetState(id, "Stopping"), "delete")

ServiceRenew(id, t) ==
    IF ~sb[id].exists THEN Raises(404, "SANDBOX_NOT_FOUND")
    ELSE IF sb[id].state \in Terminal THEN Raises(409, "STATE_CONFLICT")
    ELSE IF t <= now THEN Raises(400, "INVALID_EXPIRATION")
    ELSE IF t <= sb[id].expires_at THEN Raises(409, "EXPIRATION_NOT_EXTENDED")
    ELSE Returns([sb EXCEPT ![id].expires_at = t], "renew")

\* ---- the routes (api/lifecycle.py): the service's exception is the
\* response; otherwise the route's own status code.
Respond(op, id, t, r, okStatus) ==
    /\ sb' = r.sb
    /\ resp' = [op |-> op, id |-> id, t |-> t,
                status |-> IF r.status = 0 THEN okStatus ELSE r.status,
                code |-> r.code, rt |-> r.rt, n |-> 1 - resp.n]
    /\ UNCHANGED <<now, infVars, extVars>>

\* POST /sandboxes (lifecycle.py 86-108)
create_sandbox(id, timeout) ==
    /\ ~sb[id].gone
    /\ Respond("create", id, 0, ServiceCreate(id, timeout), 202)

\* GET /sandboxes/{sandbox_id} (lifecycle.py 187-208)
get_sandbox(sandbox_id) ==
    /\ sandbox_id \in Ids
    /\ Respond("get", sandbox_id, 0, ServiceGet(sandbox_id), 200)

\* DELETE /sandboxes/{sandbox_id} (lifecycle.py 223-244)
delete_sandboxCallsPause(sandbox_id) ==
    /\ sandbox_id \in Ids
    /\ Respond("delete", sandbox_id, 0, ServicePause(sandbox_id), 204)

delete_sandbox(sandbox_id) ==
    /\ sandbox_id \in Ids
    /\ Respond("delete", sandbox_id, 0, ServiceDelete(sandbox_id), 204)

\* POST /sandboxes/{sandbox_id}/pause (lifecycle.py 263-285)
pause_sandbox(sandbox_id) ==
    /\ sandbox_id \in Ids
    /\ Respond("pause", sandbox_id, 0, ServicePause(sandbox_id), 202)

\* POST /sandboxes/{sandbox_id}/resume (lifecycle.py 300-322)
resume_sandboxCallsPause(sandbox_id) ==
    /\ sandbox_id \in Ids
    /\ Respond("resume", sandbox_id, 0, ServicePause(sandbox_id), 202)

resume_sandbox(sandbox_id) ==
    /\ sandbox_id \in Ids
    /\ Respond("resume", sandbox_id, 0, ServiceResume(sandbox_id), 202)

\* POST /sandboxes/{sandbox_id}/renew-expiration (lifecycle.py 339-362)
renew_sandbox_expirationSwallows(sandbox_id, t) ==
    /\ sandbox_id \in Ids
    /\ Respond("renew", sandbox_id, t,
               [ServiceRenew(sandbox_id, t) EXCEPT !.status = 0, !.code = ""], 200)

renew_sandbox_expiration(sandbox_id, t) ==
    /\ sandbox_id \in Ids
    /\ Respond("renew", sandbox_id, t, ServiceRenew(sandbox_id, t), 200)

\* ---- the runtime: a workload event moves the state on ...
RuntimeTransition(id, t) ==
    /\ sb[id].exists
    /\ t \in RuntimeTargets(sb[id].state)
    /\ sb' = SetState(id, t)
    /\ UNCHANGED <<now, resp, infVars, extVars>>

\* ... and the runtime removes the object of a sandbox that has ended.
RuntimeGone(id) ==
    /\ sb[id].exists
    /\ sb[id].state \in Terminal
    /\ sb' = [sb EXCEPT ![id] = [NoWorkload EXCEPT !.gone = TRUE]]
    /\ UNCHANGED <<now, resp, infVars, extVars>>

Tick ==
    /\ now < MaxTime
    /\ now' = now + 1
    /\ UNCHANGED <<sb, resp, infVars, extVars>>

RenewTimes == 0..(MaxTime + MaxTimeout + 1)

NextLc ==
    \/ \E id \in Ids, timeout \in 1..MaxTimeout : create_sandbox(id, timeout)
    \/ \E id \in Ids : get_sandbox(id)
    \/ \E id \in Ids : delete_sandbox(id)
    \/ \E id \in Ids : pause_sandbox(id)
    \/ \E id \in Ids : resume_sandbox(id)
    \/ \E id \in Ids, t \in 0..(MaxTimeout + 1) : renew_sandbox_expiration(id, t)
    \/ \E id \in Ids, t \in States : RuntimeTransition(id, t)
    \/ \E id \in Ids : RuntimeGone(id)

InitLifecycle == Init /\ enable_watch

\* Two sandboxes under every call and runtime event, the clock standing still.
SpecLifecycle == InitLifecycle /\ [][NextLc]_vars

\* One sandbox under every call and runtime event while the clock advances.
NextTTL ==
    \/ \E timeout \in 1..MaxTimeout : create_sandbox("s1", timeout)
    \/ get_sandbox("s1")
    \/ delete_sandbox("s1")
    \/ pause_sandbox("s1")
    \/ resume_sandbox("s1")
    \/ \E t \in RenewTimes : renew_sandbox_expiration("s1", t)
    \/ \E t \in States : RuntimeTransition("s1", t)
    \/ RuntimeGone("s1")
    \/ Tick

SpecTTL == InitLifecycle /\ [][NextTTL]_vars

(***************************************************************************)
(*                     Concurrent mutating calls                           *)
(*                                                                         *)
(* Requests are served concurrently (section 5).  A mutating call takes    *)
(* the mutex of its sandbox id, decides on the state it reads and sends    *)
(* the operation to the runtime; when the runtime has answered it records  *)
(* the result and releases the mutex.                                      *)
(***************************************************************************)
MutatingOps == {"delete", "pause", "resume", "renew"}

\* The service call behind a mutating route.
ServiceOf(op, id, t) ==
    CASE op = "delete" -> ServiceDelete(id)
      [] op = "pause"  -> ServicePause(id)
      [] op = "resume" -> ServiceResume(id)
      [] OTHER         -> ServiceRenew(id, t)

\* A client sends its mutating request.
Issue(c, op, id, t) ==
    /\ cl[c].pc = "idle"
    /\ cl' = [cl EXCEPT ![c] = [NoCall EXCEPT !.pc = "waiting", !.op = op,
                                              !.id = id, !.t = t]]
    /\ UNCHANGED <<mutex, lcVars, infVars, hVars, rdVars, auVars, edgeVars>>

\* The call takes the mutex whoever holds it.
AcquireUnguarded(c) ==
    /\ cl[c].pc = "waiting"
    /\ LET id == cl[c].id
           r  == ServiceOf(cl[c].op, id, cl[c].t) IN
        /\ mutex' = [mutex EXCEPT ![id] = c]
        /\ cl' = [cl EXCEPT ![c].pc = "holding", ![c].status = r.status,
                            ![c].code = r.code, ![c].w = r.sb[id]]
    /\ UNCHANGED <<lcVars, infVars, hVars, rdVars, auVars, edgeVars>>

\* The call takes the free mutex of its id, decides and sends the operation.
Acquire(c) ==
    /\ cl[c].pc = "waiting"
    /\ mutex[cl[c].id] = ""
    /\ LET id == cl[c].id
           r  == ServiceOf(cl[c].op, id, cl[c].t) IN
        /\ mutex' = [mutex EXCEPT ![id] = c]
        /\ cl' = [cl EXCEPT ![c].pc = "holding", ![c].status = r.status,
                            ![c].code = r.code, ![c].w = r.sb[id]]
    /\ UNCHANGED <<lcVars, infVars, hVars, rdVars, auVars, edgeVars>>

\* The runtime has answered: the result is recorded and the mutex released.
Commit(c) ==
    /\ cl[c].pc = "holding"
    /\ sb' = [sb EXCEPT ![cl[c].id] = cl[c].w]
    /\ mutex' = [mutex EXCEPT ![cl[c].id] = ""]
    /\ cl' = [cl EXCEPT ![c].pc = "done"]
    /\ UNCHANGED <<now, resp, infVars, hVars, rdVars, auVars, edgeVars>>

MutexStates == {"Running", "Paused", "Failed"}

\* Sandboxes that exist when the calls arrive.
InitMutex ==
    /\ InitInformer
    /\ enable_watch
    /\ sb \in {[i \in Ids |-> [exists |-> TRUE, gone |-> FALSE, id |-> i,
                               state |-> f[i], reason |-> ReasonOf(f[i]),
                               created_at |-> 0, expires_at |-> 1]] :
                    f \in [Ids -> MutexStates]}
    /\ now = 0
    /\ resp = NoResponse
    /\ InitExt

NextMutex ==
    \/ \E c \in Clients, op \in MutatingOps, id \in Ids, t \in 1..(MaxTimeout + 1) :
            Issue(c, op, id, IF op = "renew" THEN t ELSE 0)
    \/ \E c \in Clients : Acquire(c)
    \/ \E c \in Clients : Commit(c)

SpecMutex == InitMutex /\ [][NextMutex]_vars

(***************************************************************************)
(*                         The health probe                                *)
(*                                                                         *)
(* is_healthy() asks the in-container agent over HTTP and is true only on  *)
(* its answer; the HTTP request itself ends after RequestTimeout seconds.  *)
(* The caller bounds the probe: it waits ProbeDeadline seconds for the     *)
(* result and takes anything else as unhealthy                             *)
(* (test_sandbox_e2e_sync.py 1046-1060).  The processes of a Paused        *)
(* sandbox are frozen and never answer.                                    *)
(***************************************************************************)
ProbeDeadline == 15
RequestTimeout == 180

Frozen == sb["s1"].exists /\ sb["s1"].state = "Paused"

\* pool.submit(sandbox.is_healthy)
ProbeStart ==
    /\ probe.pc \in {"idle", "done"}
    /\ probe.http = "none"
    /\ sb["s1"].exists
    /\ probe' = [pc |-> "pending", http |-> "inflight", elapsed |-> 0,
                 healthy |-> FALSE]
    /\ UNCHANGED <<infVars, lcVars, mxVars, rdVars, auVars, edgeVars>>

\* The request ends with `answer`; a caller still waiting takes it as the result.
HttpEnds(answer) ==
    /\ probe.http = "inflight"
    /\ probe' = IF probe.pc = "pending"
                THEN [probe EXCEPT !.pc = "done", !.http = "none",
                                   !.healthy = answer]
                ELSE [probe EXCEPT !.http = "none"]
    /\ UNCHANGED <<infVars, lcVars, mxVars, rdVars, auVars, edgeVars>>

\* The agent answers the probe: only a process that is not frozen can.
AgentReply ==
    /\ ~Frozen
    /\ sb["s1"].exists
    /\ sb["s1"].state \in {"Running", "Pausing", "Resuming"}
    /\ HttpEnds(TRUE)

\* The connection is refused or fails.
AgentRefuse ==
    /\ probe.http = "inflight"
    /\ HttpEnds(FALSE)

\* The request reaches the HTTP client's own timeout.
HttpTimeout ==
    /\ probe.elapsed = RequestTimeout
    /\ HttpEnds(FALSE)

\* .result() without a timeout
ProbeTickNoDeadline ==
    /\ probe.http = "inflight"
    /\ probe.elapsed < RequestTimeout
    /\ probe' = [probe EXCEPT !.elapsed = @ + 1]
    /\ UNCHANGED <<infVars, lcVars, mxVars, rdVars, auVars, edgeVars>>

\* A second passes with the request unanswered; .result(timeout=15) does not
\* wait past the deadline.
ProbeTick ==
    /\ probe.http = "inflight"
    /\ probe.elapsed < RequestTimeout
    /\ ~(probe.pc = "pending" /\ probe.elapsed = ProbeDeadline)
    /\ probe' = [probe EXCEPT !.elapsed = @ + 1]
    /\ UNCHANGED <<infVars, lcVars, mxVars, rdVars, auVars, edgeVars>>

\* .result(timeout=15) raises: healthy = False, the request lingers.
DeadlineExpired ==
    /\ probe.pc = "pending"
    /\ probe.elapsed = ProbeDeadline
    /\ probe' = [probe EXCEPT !.pc = "done", !.healthy = FALSE]
    /\ UNCHANGED <<infVars, lcVars, mxVars, rdVars, auVars, edgeVars>>

\* One Running sandbox, no probe yet.
InitProbe ==
    /\ InitInformer
    /\ enable_watch
    /\ sb = [i \in Ids |->
               IF i = "s1"
               THEN [exists |-> TRUE, gone |-> FALSE, id |-> i,
                     state |-> "Running", reason |-> ReasonOf("Running"),
                     created_at |-> 0, expires_at |-> 1]
               ELSE NoWorkload]
    /\ now = 0
    /\ resp = NoResponse
    /\ InitExt

NextProbe ==
    \/ pause_sandbox("s1")
    \/ resume_sandbox("s1")
    \/ \E t \in {"Paused", "Running"} : RuntimeTransition("s1", t)
    \/ ProbeStart
    \/ AgentReply
    \/ AgentRefuse
    \/ HttpTimeout
    \/ ProbeTick
    \/ DeadlineExpired

AgentReplyInTime == probe.pc = "pending" /\ AgentReply

\* The caller keeps probing, time passes, and an agent that is not frozen
\* answers some probe while the caller still waits.
SpecProbe ==
    /\ InitProbe
    /\ [][NextProbe]_vars
    /\ WF_vars(ProbeStart)
    /\ WF_vars(ProbeTick)
    /\ WF_vars(DeadlineExpired)
    /\ WF_vars(HttpTimeout)
    /\ SF_vars(AgentReplyInTime)

(***************************************************************************)
(*                    sandbox_create and readiness                         *)
(*                                                                         *)
(* sandbox_create of the MCP server (server.py 128-225) hands its          *)
(* ready_timeout, polling interval and skip_health_check to                *)
(* Sandbox.create, stores the sandbox it returns and answers with its      *)
(* info; an exception of Sandbox.create is the tool's failure.             *)
(* Sandbox.create polls the health probe once per interval until a 200 or  *)
(* until ready_timeout has elapsed (section 4.2).  Time is counted in      *)
(* polling intervals.                                                      *)
(***************************************************************************)
\* skip_health_check is not handed on: the SDK's default (False) applies.
sandbox_createSkipDropped(skip_health_check, ready_timeout) ==
    /\ rd.pc \in {"idle", "done", "failed"}
    /\ rd' = [NoCreate EXCEPT !.pc = "creating", !.req_skip = skip_health_check,
                              !.skip = FALSE, !.rto = ready_timeout]
    /\ UNCHANGED <<infVars, lcVars, mxVars, hVars, auVars, edgeVars>>

\* server.py 128-215: the tool is called and calls Sandbox.create
sandbox_create(skip_health_check, ready_timeout) ==
    /\ rd.pc \in {"idle", "done", "failed"}
    /\ rd' = [NoCreate EXCEPT !.pc = "creating", !.req_skip = skip_health_check,
                              !.skip = skip_health_check, !.rto = ready_timeout]
    /\ UNCHANGED <<infVars, lcVars, mxVars, hVars, auVars, edgeVars>>

\* Sandbox.create: the service accepted the sandbox
SdkCreated ==
    /\ rd.pc = "creating"
    /\ rd' = [rd EXCEPT !.pc = IF rd.skip THEN "returned" ELSE "polling"]
    /\ UNCHANGED <<infVars, lcVars, mxVars, hVars, auVars, edgeVars>>

\* Sandbox.create: one health probe inside ready_timeout
Poll(ok) ==
    /\ rd.pc = "polling"
    /\ rd.elapsed < rd.rto
    /\ rd' = [rd EXCEPT !.probes = @ + 1,
                        !.got200 = ok,
                        !.pc = IF ok THEN "returned" ELSE "sleeping"]
    /\ UNCHANGED <<infVars, lcVars, mxVars, hVars, auVars, edgeVars>>

\* Sandbox.create: sleep one polling interval
Sleep ==
    /\ rd.pc = "sleeping"
    /\ rd' = [rd EXCEPT !.elapsed = @ + 1, !.pc = "polling"]
    /\ UNCHANGED <<infVars, lcVars, mxVars, hVars, auVars, edgeVars>>

\* Sandbox.create: ready_timeout elapsed without a 200; the exception leaves
\* sandbox_create before state.add
ReadyTimeout ==
    /\ rd.pc = "polling"
    /\ rd.elapsed >= rd.rto
    /\ rd' = [rd EXCEPT !.pc = "failed"]
    /\ UNCHANGED <<infVars, lcVars, mxVars, hVars, auVars, edgeVars>>

\* server.py 216-225: state.add(sandbox), get_info, return
StoreAndReturn ==
    /\ rd.pc = "returned"
    /\ rd' = [rd EXCEPT !.pc = "done", !.stored = TRUE]
    /\ UNCHANGED <<infVars, lcVars, mxVars, hVars, auVars, edgeVars>>

NextReady ==
    \/ \E skip \in BOOLEAN, rto \in 1..MaxReadyTimeout : sandbox_create(skip, rto)
    \/ SdkCreated
    \/ \E ok \in BOOLEAN : Poll(ok)
    \/ Sleep
    \/ ReadyTimeout
    \/ StoreAndReturn

\* The coroutine of a call keeps running.
SpecReady ==
    /\ InitLifecycle
    /\ [][NextReady]_vars
    /\ WF_vars(SdkCreated)
    /\ WF_vars(\E ok \in BOOLEAN : Poll(ok))
    /\ WF_vars(Sleep)
    /\ WF_vars(ReadyTimeout)
    /\ WF_vars(StoreAndReturn)

(***************************************************************************)
(*                           AuthMiddleware                                *)
(*                                                                         *)
(* A string is a sequence of characters; the words the middleware looks    *)
(* for ("sandboxes", "proxy", "v1", "health", ...) are single elements,    *)
(* "8" is a digit, "x" a letter, "." a dot, " " a blank, "/" the slash.    *)
(* A header map is a function from header names; an optional string is a   *)
(* sequence of at most one string.                                         *)
(***************************************************************************)
API_KEY_HEADER == "OPEN-SANDBOX-API-KEY"

EXEMPT_PATHS == {<<"/", "health">>, <<"/", "docs">>, <<"/", "redoc">>,
                 <<"/", "openapi.json">>}

Digits == {"8"}

\* str.startswith
startswith(s, prefix) ==
    /\ Len(prefix) <= Len(s)
    /\ SubSeq(s, 1, Len(prefix)) = prefix

\* lit occurs in s at index i
At(s, i, lit) ==
    /\ i + Len(lit) - 1 <= Len(s)
    /\ SubSeq(s, i, i + Len(lit) - 1) = lit

\* ".." in path
ContainsDotDot(s) == \E i \in 1..(Len(s) - 1) : s[i] = "." /\ s[i + 1] = "."

\* _PROXY_PATH_RE.match with the group (/|$) replaced by $
PROXY_PATH_RE_NoRest(s) ==
    \E i \in {1} \cup (IF At(s, 1, <<"/", "v1">>) THEN {3} ELSE {}) :
        /\ At(s, i, <<"/", "sandboxes", "/">>)
        /\ \E j \in (i + 4)..Len(s) :
            /\ \A k \in (i + 3)..(j - 1) : s[k] # "/"
            /\ At(s, j, <<"/", "proxy", "/">>)
            /\ \E e \in (j + 4)..(Len(s) + 1) :
                /\ \A k \in (j + 3)..(e - 1) : s[k] \in Digits
                /\ \/ e = Len(s) + 1
                   \/ e = Len(s) /\ s[e] = "\n"

\* the rest of the path after the port is not allowed
is_proxy_pathNoRest(path) ==
    IF ContainsDotDot(path) THEN FALSE ELSE PROXY_PATH_RE_NoRest(path)

\* _PROXY_PATH_RE.match(path): ^(/v1)?/sandboxes/[^/]+/proxy/\d+(/|$)
\* i is where (/v1)? ends, s[i+3 .. j-1] is [^/]+, s[j+3 .. e-1] is \d+;
\* $ is the end of the string or the newline that ends it.
PROXY_PATH_RE(s) ==
    \E i \in {1} \cup (IF At(s, 1, <<"/", "v1">>) THEN {3} ELSE {}) :
        /\ At(s, i, <<"/", "sandboxes", "/">>)
        /\ \E j \in (i + 4)..Len(s) :
            /\ \A k \in (i + 3)..(j - 1) : s[k] # "/"
            /\ At(s, j, <<"/", "proxy", "/">>)
            /\ \E e \in (j + 4)..(Len(s) + 1) :
                /\ \A k \in (j + 3)..(e - 1) : s[k] \in Digits
                /\ \/ e = Len(s) + 1
                   \/ s[e] = "/"
                   \/ e = Len(s) /\ s[e] = "\n"

is_proxy_path(path) ==
    IF ContainsDotDot(path) THEN FALSE ELSE PROXY_PATH_RE(path)

\* str.strip
RECURSIVE lstrip(_)
lstrip(s) == IF s # <<>> /\ Head(s) = " " THEN lstrip(Tail(s)) ELSE s

RECURSIVE rstrip(_)
rstrip(s) ==
    IF s # <<>> /\ s[Len(s)] = " " THEN rstrip(SubSeq(s, 1, Len(s) - 1)) ELSE s

strip(s) == rstrip(lstrip(s))

\* api_key is server.api_key of the configuration, an optional string
\* a key of white space only counts as a key
load_api_keysNoStrip(api_key) ==
    IF api_key # <<>> /\ api_key[1] # <<>>
    THEN {api_key[1]}
    ELSE {}

load_api_keys(api_key) ==
    IF api_key # <<>> /\ api_key[1] # <<>> /\ strip(api_key[1]) # <<>>
    THEN {api_key[1]}
    ELSE {}

\* the keys a server is configured with
ConfigKeys == {<<>>, << <<>> >>, << <<" ">> >>, << <<"secret-key">> >>}

AuthMiddlewareInit(api_key) ==
    /\ ~au.constructed
    /\ au' = [au EXCEPT !.constructed = TRUE, !.api_key = api_key,
                        !.valid_api_keys = load_api_keys(api_key)]
    /\ UNCHANGED <<infVars, lcVars, mxVars, hVars, rdVars, edgeVars>>

\* request.headers.get
HeadersGet(headers, name) ==
    IF name \in DOMAIN headers THEN <<headers[name]>> ELSE <<>>

\* what dispatch returns: the response of call_next, or its own 401
CallNext(downstream) == [status |-> downstream, code |-> "", calls |-> 1]

Unauthorized(code) == [status |-> 401, code |-> code, calls |-> 0]

\* a key that is not empty is not compared with the configured keys
dispatchNoCompare(path, headers, downstream) ==
    /\ au.constructed /\ ~au.served
    /\ LET api_key == HeadersGet(headers, API_KEY_HEADER)
           r == IF \E p \in EXEMPT_PATHS : startswith(path, p)
                    THEN CallNext(downstream)
                ELSE IF is_proxy_path(path) THEN CallNext(downstream)
                ELSE IF au.valid_api_keys = {} THEN CallNext(downstream)
                ELSE IF api_key = <<>> \/ api_key[1] = <<>>
                    THEN Unauthorized("MISSING_API_KEY")
                ELSE CallNext(downstream)
       IN  au' = [au EXCEPT !.served = TRUE, !.path = path, !.headers = headers,
                            !.status = r.status, !.code = r.code,
                            !.calls = r.calls]
    /\ UNCHANGED <<infVars, lcVars, mxVars, hVars, rdVars, edgeVars>>

\* downstream is the status the route handler (or the router) answers with.
\* dispatch keeps nothing from one request to the next: a behaviour follows
\* one request.
dispatch(path, headers, downstream) ==
    /\ au.constructed /\ ~au.served
    /\ LET api_key == HeadersGet(headers, API_KEY_HEADER)
           r == IF \E p \in EXEMPT_PATHS : startswith(path, p)
                    THEN CallNext(downstream)
                ELSE IF is_proxy_path(path) THEN CallNext(downstream)
                ELSE IF au.valid_api_keys = {} THEN CallNext(downstream)
                ELSE IF api_key = <<>> \/ api_key[1] = <<>>
                    THEN Unauthorized("MISSING_API_KEY")
                ELSE IF au.valid_api_keys # {} /\ api_key[1] \notin au.valid_api_keys
                    THEN Unauthorized("INVALID_API_KEY")
                ELSE CallNext(downstream)
       IN  au' = [au EXCEPT !.served = TRUE, !.path = path, !.headers = headers,
                            !.status = r.status, !.code = r.code,
                            !.calls = r.calls]
    /\ UNCHANGED <<infVars, lcVars, mxVars, hVars, rdVars, edgeVars>>

\* Requests: the path is "/" + segment, once per segment.
Segs == {<<"v1">>, <<"sandboxes">>, <<"proxy">>, <<"health">>, <<"x">>, <<"8">>,
         <<"8", "x">>, <<".", ".">>, <<>>}

RECURSIVE JoinPath(_)
JoinPath(segs) ==
    IF segs = <<>> THEN <<>> ELSE <<"/">> \o Head(segs) \o JoinPath(Tail(segs))

\* the paths of at most n segments
PathsUpTo(n) == {JoinPath(segs) : segs \in UNION {[1..k -> Segs] : k \in 1..n}}

Headers == {<<>>} \cup {API_KEY_HEADER :> v : v \in {<<>>, <<"secret-key">>, <<"wrong">>}}

\* a request arrives at the constructed middleware
Request ==
    /\ au.constructed /\ ~au.served
    /\ \E path \in PathsUpTo(MaxSegs), headers \in Headers, downstream \in {200, 404} :
            dispatch(path, headers, downstream)

NextAuth ==
    \/ \E api_key \in ConfigKeys : AuthMiddlewareInit(api_key)
    \/ Request

SpecAuth == InitLifecycle /\ [][NextAuth]_vars

(***************************************************************************)
(*                         Endpoint resolution                             *)
(*                                                                         *)
(* Strings are sequences of characters and words as in the middleware;     *)
(* an optional value is a sequence of at most one value (<<>> is None).    *)
(* A call of a helper is recorded in calc: its name, arguments, result.    *)
(***************************************************************************)
INGRESS_MODE_DIRECT == "direct"

INGRESS_MODE_GATEWAY == "gateway"

GATEWAY_ROUTE_MODE_WILDCARD == "wildcard"

GATEWAY_ROUTE_MODE_URI == "uri"

GATEWAY_ROUTE_MODE_HEADER == "header"

OPEN_SANDBOX_INGRESS_HEADER == "X-OpenSandbox-Ingress"

\* Endpoint(endpoint=..., headers=...)
Endpoint(endpoint, headers) == [exc |-> "", endpoint |-> endpoint, headers |-> headers]

Raised(exc) == [exc |-> exc, endpoint |-> <<>>, headers |-> <<>>]

\* the leading "*." of a wildcard address is kept
format_ingress_endpointKeepsStar(ingress_config, sandbox_id, port) ==
    IF ingress_config = <<>> \/ ingress_config[1].mode # INGRESS_MODE_GATEWAY
    THEN <<>>
    ELSE LET gateway_cfg == ingress_config[1].gateway IN
    IF gateway_cfg = <<>> THEN <<>>
    ELSE LET address == gateway_cfg[1].address
             route_mode == gateway_cfg[1].route
         IN
    IF route_mode = GATEWAY_ROUTE_MODE_WILDCARD
    THEN << Endpoint(sandbox_id \o <<"-", ToString(port), ".">> \o address, <<>>) >>
    ELSE IF route_mode = GATEWAY_ROUTE_MODE_URI
    THEN << Endpoint(address \o <<"/">> \o sandbox_id \o <<"/", ToString(port)>>, <<>>) >>
    ELSE IF route_mode = GATEWAY_ROUTE_MODE_HEADER
    THEN << Endpoint(address,
                     << (OPEN_SANDBOX_INGRESS_HEADER :>
                            (sandbox_id \o <<"-", ToString(port)>>)) >>) >>
    ELSE << Raised("RuntimeError") >>

format_ingress_endpoint(ingress_config, sandbox_id, port) ==
    IF ingress_config = <<>> \/ ingress_config[1].mode # INGRESS_MODE_GATEWAY
    THEN <<>>
    ELSE LET gateway_cfg == ingress_config[1].gateway IN
    IF gateway_cfg = <<>> THEN <<>>
    ELSE LET address == gateway_cfg[1].address
             route_mode == gateway_cfg[1].route
         IN
    IF route_mode = GATEWAY_ROUTE_MODE_WILDCARD
    THEN LET base == IF startswith(address, <<"*", ".">>)
                     THEN SubSeq(address, 3, Len(address))
                     ELSE address
         IN  << Endpoint(sandbox_id \o <<"-", ToString(port), ".">> \o base, <<>>) >>
    ELSE IF route_mode = GATEWAY_ROUTE_MODE_URI
    THEN << Endpoint(address \o <<"/">> \o sandbox_id \o <<"/", ToString(port)>>, <<>>) >>
    ELSE IF route_mode = GATEWAY_ROUTE_MODE_HEADER
    THEN << Endpoint(address,
                     << (OPEN_SANDBOX_INGRESS_HEADER :>
                            (sandbox_id \o <<"-", ToString(port)>>)) >>) >>
    ELSE << Raised("RuntimeError") >>

\* The configurations, ids and ports the helpers are applied to.
Addresses == {<<"*", ".", "example.com">>, <<"gateway.example.com">>,
              <<"*", "example.com">>}

IngressConfigs ==
    {<<>>, << [mode |-> INGRESS_MODE_DIRECT, gateway |-> <<>>] >>,
           << [mode |-> INGRESS_MODE_GATEWAY, gateway |-> <<>>] >>}
    \cup { << [mode |-> m, gateway |-> << [address |-> a, route |-> r] >>] >> :
            m \in {INGRESS_MODE_DIRECT, INGRESS_MODE_GATEWAY},
            a \in Addresses,
            r \in {GATEWAY_ROUTE_MODE_WILDCARD, GATEWAY_ROUTE_MODE_URI,
                   GATEWAY_ROUTE_MODE_HEADER} }

SandboxIds == {<<"sid">>, <<"sbx", "-", "123">>}

Ports == {8080, 9000, 6000}

\* one application of a helper
Apply(op, args, out) ==
    /\ calc' = [op |-> op, args |-> args, out |-> out]
    /\ UNCHANGED <<infVars, lcVars, mxVars, hVars, rdVars, auVars, pxVars, mdVars, objVars>>

CallFormatIngressEndpoint ==
    /\ calc.op = ""
    /\ \E ingress_config \in IngressConfigs, sandbox_id \in SandboxIds, port \in Ports :
            Apply("format_ingress_endpoint", <<ingress_config, sandbox_id, port>>,
                  format_ingress_endpoint(ingress_config, sandbox_id, port))

NextIngress == CallFormatIngressEndpoint

SpecIngress == InitLifecycle /\ [][NextIngress]_vars

\* DockerSandboxService.get_endpoint: the container of the sandbox runs;
\* docker is the service's view of it: network mode, the bind address of the
\* server, the container's address and the host ports in its labels.
HTTP_PORT == 8080

get_endpointBridgeDirect(docker, sandbox_id, port, resolve_internal) ==
    IF docker.network_mode = "host"
    THEN IF resolve_internal
         THEN Endpoint(<<"127.0.0.1", ":", ToString(port)>>, <<>>)
         ELSE Endpoint(<<docker.bind_ip, ":", ToString(port)>>, <<>>)
    ELSE IF resolve_internal
         THEN Endpoint(<<docker.ip_address, ":", ToString(port)>>, <<>>)
         ELSE Endpoint(<<docker.bind_ip, ":", ToString(port)>>, <<>>)

get_endpoint(docker, sandbox_id, port, resolve_internal) ==
    IF docker.network_mode = "host"
    THEN IF resolve_internal
         THEN Endpoint(<<"127.0.0.1", ":", ToString(port)>>, <<>>)
         ELSE Endpoint(<<docker.bind_ip, ":", ToString(port)>>, <<>>)
    ELSE IF resolve_internal
         THEN Endpoint(<<docker.ip_address, ":", ToString(port)>>, <<>>)
         ELSE IF port = HTTP_PORT
         THEN Endpoint(<<docker.bind_ip, ":", docker.http_port>>, <<>>)
         ELSE Endpoint(<<docker.bind_ip, ":", docker.embedding_proxy_port,
                         "/", "proxy", "/", ToString(port)>>, <<>>)

DockerViews ==
    [network_mode : {"host", "bridge"},
     bind_ip : {"10.0.0.1", "192.168.1.100"},
     ip_address : {"172.17.0.5", "10.0.0.5"},
     http_port : {"50001", "8080"},
     embedding_proxy_port : {"50002"}]

CallGetEndpoint ==
    /\ calc.op = ""
    /\ \E docker \in DockerViews, sandbox_id \in SandboxIds, port \in Ports,
          resolve_internal \in BOOLEAN :
            Apply("get_endpoint", <<docker, sandbox_id, port, resolve_internal>>,
                  get_endpoint(docker, sandbox_id, port, resolve_internal))

NextEndpoint == CallGetEndpoint

SpecEndpoint == InitLifecycle /\ [][NextEndpoint]_vars

(***************************************************************************)
(*                            Reverse proxy                                *)
(*                                                                         *)
(* A header name is its first letter followed by the rest of the name, so  *)
(* that "Cookie" and "cookie" differ in the first element only.  A header  *)
(* dictionary is a function from names to values.                          *)
(***************************************************************************)
HOP_BY_HOP_HEADERS ==
    {<<"c", "onnection">>, <<"k", "eep-alive">>, <<"p", "roxy-authenticate">>,
     <<"p", "roxy-authorization">>, <<"t", "e">>, <<"t", "railers">>,
     <<"t", "ransfer-encoding">>, <<"u", "pgrade">>}

SENSITIVE_HEADERS == {<<"a", "uthorization">>, <<"c", "ookie">>}

\* str.lower on the letters that occur in upper case
UpperToLower ==
    ("A" :> "a") @@ ("C" :> "c") @@ ("H" :> "h") @@ ("K" :> "k") @@ ("P" :> "p")
        @@ ("R" :> "r") @@ ("T" :> "t") @@ ("U" :> "u") @@ ("M" :> "m")
        @@ ("G" :> "g") @@ ("I" :> "i") @@ ("B" :> "b") @@ ("N" :> "n")
        @@ ("F" :> "f")

lower(str) ==
    [i \in 1..Len(str) |->
        IF str[i] \in DOMAIN UpperToLower THEN UpperToLower[str[i]] ELSE str[i]]

\* request.headers.items(): the header lines of the request in their order,
\* the names in lower case as the server hands them to the application
RequestHeadersItems(lines) ==
    [i \in 1..Len(lines) |-> <<lower(lines[i][1]), lines[i][2]>>]

\* request.headers.get(name): the first value under that name
RECURSIVE ItemsGet(_, _)
ItemsGet(items, name) ==
    IF items = <<>> THEN <<>>
    ELSE IF Head(items)[1] = lower(name) THEN <<Head(items)[2]>>
    ELSE ItemsGet(Tail(items), name)

\* sensitive headers are not held back
ShouldForwardSensitive(key) ==
    LET key_lower == lower(key)
    IN  /\ key_lower # <<"h", "ost">>
        /\ key_lower \notin HOP_BY_HOP_HEADERS

\* lifecycle.py 444-449
ShouldForward(key) ==
    LET key_lower == lower(key)
    IN  /\ key_lower # <<"h", "ost">>
        /\ key_lower \notin HOP_BY_HOP_HEADERS
        /\ key_lower \notin SENSITIVE_HEADERS

\* headers[key] = value
DictSet(dict, key, value) ==
    [k \in (DOMAIN dict) \cup {key} |-> IF k = key THEN value ELSE dict[k]]

\* the loop of lifecycle.py 442-450 over the items left
RECURSIVE FilterHeaders(_, _)
FilterHeaders(items, headers) ==
    IF items = <<>> THEN headers
    ELSE LET key == Head(items)[1]
             value == Head(items)[2]
         IN  FilterHeaders(Tail(items),
                           IF ShouldForward(key) THEN DictSet(headers, key, value)
                           ELSE headers)

\* The classes of an exception: its own and those it derives from.
ExceptionBases ==
    [HTTPException |-> {"HTTPException", "Exception"},
     ConnectError |-> {"ConnectError", "NetworkError", "TransportError",
                       "RequestError", "HTTPError", "Exception"},
     ConnectTimeout |-> {"ConnectTimeout", "TimeoutException", "TransportError",
                         "RequestError", "HTTPError", "Exception"},
     ReadTimeout |-> {"ReadTimeout", "TimeoutException", "TransportError",
                      "RequestError", "HTTPError", "Exception"}]

\* the clause for httpx.ConnectError is missing
ExceptClausesNoConnectError(exc) ==
    IF "Exception" \in ExceptionBases[exc] THEN 500
    ELSE 0

\* lifecycle.py 473-481: the status of the HTTPException the handler raises
\* for an exception raised in its try block
ExceptClauses(exc) ==
    IF "ConnectError" \in ExceptionBases[exc] THEN 502
    ELSE IF "Exception" \in ExceptionBases[exc] THEN 500
    ELSE 0

\* sandbox_service.get_endpoint(sandbox_id, port) without resolve_internal:
\* the call get_sandbox_endpoint makes for the public endpoint
RESOLVE_INTERNAL_DEFAULT == FALSE

\* lines are the header lines the client sent; outcome is what the service
\* and the upstream do: "NotFound" (get_endpoint raises 404), "Response"
\* (the upstream answers with upstream_status), or the exception of
\* client.send.  A behaviour follows one request.
proxy_sandbox_endpoint_request(method, lines, docker, sandbox_id, port, full_path, outcome, upstream_status) ==
    /\ ~px.served
    /\ LET request == [served |-> TRUE, method |-> method, items |-> lines,
                       cfg |-> docker, port |-> port, outcome |-> outcome,
                       target |-> <<>>, sent |-> FALSE, headers |-> <<>>,
                       status |-> 0]
           endpoint == get_endpoint(docker, sandbox_id, port, RESOLVE_INTERNAL_DEFAULT)
           target_url == <<"http://">> \o endpoint.endpoint \o <<"/">> \o full_path
           items == RequestHeadersItems(lines)
           headers == FilterHeaders(items, <<>>)
           websocket == method = "GET" /\ ItemsGet(items, <<"U", "pgrade">>) = <<"websocket">>
       IN  IF outcome = "NotFound"
           THEN px' = [request EXCEPT !.status = 404]
           ELSE IF websocket
           THEN px' = [request EXCEPT !.target = target_url, !.headers = headers,
                                      !.status = ExceptClauses("HTTPException")]
           ELSE IF outcome # "Response"
           THEN px' = [request EXCEPT !.target = target_url, !.headers = headers,
                                      !.sent = TRUE,
                                      !.status = ExceptClauses(outcome)]
           ELSE px' = [request EXCEPT !.target = target_url, !.headers = headers,
                                      !.sent = TRUE, !.status = upstream_status]
    /\ UNCHANGED <<infVars, lcVars, mxVars, hVars, rdVars, auVars, fnVars, mdVars, objVars>>

\* The requests of the proxy.
HeaderNames ==
    {<<"h", "ost">>} \cup HOP_BY_HOP_HEADERS \cup SENSITIVE_HEADERS
    \cup {<<"a", "ccept">>, <<"A", "ccept">>, <<"C", "ookie">>, <<"U", "pgrade">>}

HeaderLines ==
    {<<name, value>> : name \in HeaderNames, value \in {"v", "w"}}
    \cup {<<name, "websocket">> : name \in {<<"u", "pgrade">>, <<"U", "pgrade">>}}

LinesUpTo(n) == UNION {[1..k -> HeaderLines] : k \in 0..n}

ProxyDockerViews ==
    {[network_mode |-> m, bind_ip |-> "192.168.1.100", ip_address |-> "172.17.0.5",
      http_port |-> "50001", embedding_proxy_port |-> "50002"] : m \in {"host", "bridge"}}

ProxyRequest ==
    /\ ~px.served
    /\ \E method \in {"GET", "POST"}, lines \in LinesUpTo(MaxHeaders),
          docker \in ProxyDockerViews, port \in {8080, 6000},
          outcome \in {"NotFound", "Response", "ConnectError", "ConnectTimeout",
                       "ReadTimeout"} :
            proxy_sandbox_endpoint_request(method, lines, docker, <<"sid">>, port,
                                           <<"foo">>, outcome, 200)

NextProxy == ProxyRequest

SpecProxy == InitLifecycle /\ [][NextProxy]_vars

(***************************************************************************)
(* List filter (helpers.py, matches_filter).  A state is a string (a       *)
(* sequence of atoms), a metadata map a function from keys to values; an   *)
(* Optional value is a sequence of length at most one, <<>> being None.    *)
(***************************************************************************)
\* dict.get(key): None when the key is absent
DictGet(dict, key) == IF key \in DOMAIN dict THEN <<dict[key]>> ELSE <<>>

\* x or default
OrElse(opt, default) == IF opt = <<>> THEN default ELSE opt[1]

matches_filterCaseSensitive(sandbox, filter_) ==
    IF filter_ = <<>> THEN TRUE
    ELSE LET f == filter_[1]
             states == OrElse(f.state, <<>>)
             desired == {states[i] : i \in 1..Len(states)}
             current_state == OrElse(sandbox.status.state, <<>>)
             wanted == OrElse(f.metadata, <<>>)
             metadata == OrElse(sandbox.metadata, <<>>)
         IN  IF states # <<>> /\ current_state \notin desired THEN FALSE
             ELSE \A key \in DOMAIN wanted :
                        DictGet(metadata, key) = <<wanted[key]>>

matches_filter(sandbox, filter_) ==
    IF filter_ = <<>> THEN TRUE
    ELSE LET f == filter_[1]
             states == OrElse(f.state, <<>>)
             desired == {lower(states[i]) : i \in 1..Len(states)}
             current_state == lower(OrElse(sandbox.status.state, <<>>))
             wanted == OrElse(f.metadata, <<>>)
             metadata == OrElse(sandbox.metadata, <<>>)
         IN  IF states # <<>> /\ current_state \notin desired THEN FALSE
             ELSE \A key \in DOMAIN wanted :
                        DictGet(metadata, key) = <<wanted[key]>>

StateNames == {<<"R", "unning">>, <<"r", "unning">>, <<"P", "aused">>}

MetadataMaps ==
    {<<>>, "role" :> "a", "role" :> "b", "team" :> "x",
     ("role" :> "a") @@ ("team" :> "x"), ("role" :> "b") @@ ("team" :> "x")}

OptionalOf(S) == {<<>>} \cup {<<x>> : x \in S}

Sandboxes ==
    {[status |-> [state |-> st], metadata |-> m] :
        st \in OptionalOf(StateNames), m \in OptionalOf(MetadataMaps)}

StateLists ==
    {<<>>} \cup {<<a>> : a \in StateNames}
        \cup {<<a, b>> : a \in {<<"P", "aused">>}, b \in StateNames}

SandboxFilters ==
    OptionalOf({[state |-> sl, metadata |-> m] :
                    sl \in OptionalOf(StateLists),
                    m \in OptionalOf({<<>>, "role" :> "a", "team" :> "x",
                                      ("role" :> "a") @@ ("team" :> "x")})})

CallMatchesFilter ==
    /\ calc.op = ""
    /\ \E sandbox \in Sandboxes, filter_ \in SandboxFilters :
            Apply("matches_filter", <<sandbox, filter_>>,
                  matches_filter(sandbox, filter_))

NextFilter == CallMatchesFilter

SpecFilter == InitLifecycle /\ [][NextFilter]_vars

(***************************************************************************)
(* Metadata of a sandbox: create validates the caller's metadata and       *)
(* writes it as labels next to the system labels; get rebuilds the user    *)
(* metadata from the labels (agent_sandbox.py, _build_sandbox_from_        *)
(* workload).  A label key is a sequence of atoms, its prefix first.       *)
(***************************************************************************)
RESERVED_PREFIX == <<"opensandbox.io/">>

SANDBOX_ID_LABEL == <<"opensandbox.io/", "id">>

\* the keys test_validators.py passes to ensure_metadata_labels unrejected
ValidLabelKeys ==
    {<<"app">>, <<"opensandbox.io/", "hello">>, <<"k8s.io/", "name">>, <<"empty">>}

\* a key that has not the shape of a label
MalformedLabelKeys == {<<"bad key">>}

\* ensure_metadata_labels(metadata): TRUE when it does not raise
ensure_metadata_labels(metadata) ==
    \/ metadata = <<>>
    \/ \A key \in DOMAIN metadata[1] : key \in ValidLabelKeys

\* the labels create writes on the workload
WorkloadLabels(sandbox_id, metadata) ==
    IF metadata = <<>> THEN SANDBOX_ID_LABEL :> sandbox_id
    ELSE metadata[1] @@ (SANDBOX_ID_LABEL :> sandbox_id)

user_metadata(labels) ==
    [k \in {l \in DOMAIN labels : ~startswith(l, RESERVED_PREFIX)} |-> labels[k]]

\* Sandbox(metadata = user_metadata if user_metadata else None)
SandboxMetadata(labels) ==
    IF DOMAIN user_metadata(labels) = {} THEN <<>> ELSE <<user_metadata(labels)>>

LabelValues == {"world", ""}

RECURSIVE MapsOver(_)
MapsOver(keys) ==
    IF keys = {} THEN {<<>>}
    ELSE LET k == CHOOSE x \in keys : TRUE
             rest == MapsOver(keys \ {k})
         IN  rest \cup {(k :> v) @@ m : v \in LabelValues, m \in rest}

MetadataInputs(keys) == OptionalOf(MapsOver(keys))

\* POST /sandboxes with metadata
CreateWithMetadata ==
    /\ md.pc = "idle"
    /\ \E metadata \in MetadataInputs(ValidLabelKeys \cup MalformedLabelKeys) :
            md' = IF ensure_metadata_labels(metadata)
                  THEN [md EXCEPT !.pc = "created", !.metadata = metadata,
                                  !.accepted = TRUE,
                                  !.labels = WorkloadLabels("sid", metadata)]
                  ELSE [md EXCEPT !.pc = "rejected", !.metadata = metadata]
    /\ UNCHANGED <<infVars, lcVars, mxVars, hVars, rdVars, auVars, pxVars, fnVars, objVars>>

\* GET /sandboxes/{id} of the sandbox created
GetCreated ==
    /\ md.pc = "created"
    /\ md' = [md EXCEPT !.pc = "got", !.returned = SandboxMetadata(md.labels)]
    /\ UNCHANGED <<infVars, lcVars, mxVars, hVars, rdVars, auVars, pxVars, fnVars, objVars>>

NextMetadata == CreateWithMetadata \/ GetCreated

SpecMetadata == InitLifecycle /\ [][NextMetadata]_vars

(***************************************************************************)
(* Template manager (template_manager.py, agent_sandbox_template.py).  A   *)
(* manifest is a function from keys to values; a value is null, a scalar,  *)
(* a list of scalars or a map, tagged by t.                                *)
(***************************************************************************)
Null == [t |-> "null", v |-> ""]

Str(s) == [t |-> "str", v |-> s]

List(l) == [t |-> "list", v |-> l]

Map(m) == [t |-> "map", v |-> m]

RECURSIVE deep_copy(_)
deep_copy(obj) ==
    IF obj.t = "map" THEN Map([k \in DOMAIN obj.v |-> deep_copy(obj.v[k])])
    ELSE IF obj.t = "list" THEN List([i \in 1..Len(obj.v) |-> obj.v[i]])
    ELSE obj

RECURSIVE deep_merge(_, _)
deep_merge(base, override) ==
    [key \in DOMAIN base \cup {k \in DOMAIN override : override[k] # Null} |->
        IF key \notin DOMAIN override \/ override[key] = Null THEN base[key]
        ELSE IF key \notin DOMAIN base THEN deep_copy(override[key])
        ELSE IF base[key].t = "map" /\ override[key].t = "map"
             THEN Map(deep_merge(base[key].v, override[key].v))
        ELSE deep_copy(override[key])]

\* the copy of the template, {} when none is loaded or it is empty
get_base_template(template) ==
    IF template # <<>> /\ DOMAIN template[1] # {}
    THEN deep_copy(Map(template[1])).v
    ELSE <<>>

merge_with_runtime_valuesTemplateWins(template, runtime_manifest) ==
    LET base == get_base_template(template) IN
    IF DOMAIN base = {} THEN runtime_manifest
    ELSE deep_merge(runtime_manifest, base)

merge_with_runtime_values(template, runtime_manifest) ==
    LET base == get_base_template(template) IN
    IF DOMAIN base = {} THEN runtime_manifest
    ELSE deep_merge(base, runtime_manifest)

Leaves == {Null, Str("a"), List(<<"a">>), List(<<"b">>)}

\* the functions from a subset of keys to vals
RECURSIVE FunctionsOver(_, _)
FunctionsOver(keys, vals) ==
    IF keys = {} THEN {<<>>}
    ELSE LET k == CHOOSE x \in keys : TRUE
             rest == FunctionsOver(keys \ {k}, vals)
         IN  rest \cup {(k :> v) @@ m : v \in vals, m \in rest}

InnerMaps == FunctionsOver({"x", "y"}, Leaves)

Manifests ==
    {k @@ sp : k \in FunctionsOver({"kind"}, Leaves),
               sp \in FunctionsOver({"spec"}, Leaves \cup {Map(m) : m \in InnerMaps})}

CallMergeWithRuntimeValues ==
    /\ calc.op = ""
    /\ \E template \in OptionalOf(Manifests), runtime_manifest \in Manifests :
            Apply("merge_with_runtime_values", <<template, runtime_manifest>>,
                  merge_with_runtime_values(template, runtime_manifest))

NextTemplate == CallMergeWithRuntimeValues

SpecTemplate == InitLifecycle /\ [][NextTemplate]_vars

(***************************************************************************)
(* The template manager with its objects as Python holds them: a dict or a *)
(* list is an object of the heap (a sequence of objects, the address being *)
(* the index), and a dict refers to its dicts and lists by address.  Two   *)
(* references to the same address are the same object: a change made       *)
(* through one is seen through the other.                                  *)
(***************************************************************************)
Ref(a) == [t |-> "ref", v |-> a]

\* a new object on the heap for every dict and list of a value (yaml.safe_load,
\* or a manifest its caller has built)
RECURSIVE HeapAlloc(_, _)
RECURSIVE HeapAllocEntries(_, _, _, _)
HeapAlloc(heap, val) ==
    IF val.t = "map"
    THEN LET r == HeapAllocEntries(heap, val.v, DOMAIN val.v, <<>>)
         IN  [heap |-> Append(r.heap, Map(r.out)), out |-> Ref(Len(r.heap) + 1)]
    ELSE IF val.t = "list"
    THEN [heap |-> Append(heap, val), out |-> Ref(Len(heap) + 1)]
    ELSE [heap |-> heap, out |-> val]

HeapAllocEntries(heap, m, keys, acc) ==
    IF keys = {} THEN [heap |-> heap, out |-> acc]
    ELSE LET k == CHOOSE x \in keys : TRUE
             c == HeapAlloc(heap, m[k])
         IN  HeapAllocEntries(c.heap, m, keys \ {k}, (k :> c.out) @@ acc)

\* _deep_copy returns its argument: no new object
deep_copyObjShared(heap, val) == [heap |-> heap, out |-> val]

\* _deep_copy(obj): a new dict with copies of the values, a new list with the
\* items, any other value itself
RECURSIVE deep_copyObj(_, _)
RECURSIVE deep_copyEntries(_, _, _, _)
deep_copyObj(heap, val) ==
    IF val.t # "ref" THEN [heap |-> heap, out |-> val]
    ELSE IF heap[val.v].t = "list"
    THEN [heap |-> Append(heap, List(heap[val.v].v)), out |-> Ref(Len(heap) + 1)]
    ELSE LET r == deep_copyEntries(heap, heap[val.v].v, DOMAIN heap[val.v].v, <<>>)
         IN  [heap |-> Append(r.heap, Map(r.out)), out |-> Ref(Len(r.heap) + 1)]

deep_copyEntries(heap, m, keys, acc) ==
    IF keys = {} THEN [heap |-> heap, out |-> acc]
    ELSE LET k == CHOOSE x \in keys : TRUE
             c == deep_copyObj(heap, m[k])
         IN  deep_copyEntries(c.heap, m, keys \ {k}, (k :> c.out) @@ acc)

\* isinstance(value, dict)
IsDict(heap, val) == val.t = "ref" /\ heap[val.v].t = "map"

\* _deep_merge(base, override): result = base.copy() is a new dict with the
\* values of base; the loop then stores into result
RECURSIVE deep_mergeObj(_, _, _)
RECURSIVE deep_mergeEntries(_, _, _, _)
deep_mergeObj(heap, base, override) ==
    LET r == deep_mergeEntries(heap, heap[base].v, heap[override].v,
                               DOMAIN heap[override].v)
    IN  [heap |-> Append(r.heap, Map(r.out)), out |-> Ref(Len(r.heap) + 1)]

deep_mergeEntries(heap, result, override, keys) ==
    IF keys = {} THEN [heap |-> heap, out |-> result]
    ELSE LET key == CHOOSE x \in keys : TRUE
             override_value == override[key]
         IN  IF override_value.t = "null"
             THEN deep_mergeEntries(heap, result, override, keys \ {key})
             ELSE IF key \in DOMAIN result /\ IsDict(heap, result[key])
                        /\ IsDict(heap, override_value)
             THEN LET m == deep_mergeObj(heap, result[key].v, override_value.v)
                  IN  deep_mergeEntries(m.heap, (key :> m.out) @@ result, override,
                                        keys \ {key})
             ELSE LET c == deep_copyObj(heap, override_value)
                  IN  deep_mergeEntries(c.heap, (key :> c.out) @@ result, override,
                                        keys \ {key})

\* get_base_template(): a deep copy of self._template when it is not None
\* and not empty, a new empty dict otherwise
get_base_templateObj(heap, template) ==
    IF template # <<>> /\ DOMAIN heap[template[1]].v # {}
    THEN deep_copyObj(heap, Ref(template[1]))
    ELSE [heap |-> Append(heap, Map(<<>>)), out |-> Ref(Len(heap) + 1)]

\* merge_with_runtime_values(runtime_manifest)
merge_with_runtime_valuesObj(heap, template, runtime_manifest) ==
    LET base == get_base_templateObj(heap, template) IN
    IF DOMAIN base.heap[base.out.v].v = {}
    THEN [heap |-> base.heap, out |-> Ref(runtime_manifest)]
    ELSE deep_mergeObj(base.heap, base.out.v, runtime_manifest)

\* calls made to the manager
MaxCalls == 2

\* changes made by callers
MaxMutations == 2

TemplateFiles ==
    {<<>>,
     ("kind" :> Str("a"))
        @@ ("spec" :> Map(("x" :> Str("a")) @@ ("y" :> List(<<"a">>))))}

RuntimeManifests ==
    {"kind" :> Str("b"),
     ("kind" :> Null) @@ ("spec" :> Map(("x" :> Null) @@ ("y" :> List(<<"b">>)))),
     "spec" :> Map("w" :> Map("x" :> Str("b")))}

\* __init__: without a template file, or _load_template
TemplateManagerInit ==
    /\ ~tm.started
    /\ \E file \in OptionalOf(TemplateFiles) :
            tm' = IF file = <<>> THEN [tm EXCEPT !.started = TRUE]
                  ELSE LET a == HeapAlloc(tm.heap, Map(file[1]))
                       IN  [tm EXCEPT !.started = TRUE, !.heap = a.heap,
                                      !.template = <<a.out.v>>,
                                      !.loaded = <<Map(file[1])>>]
    /\ UNCHANGED <<infVars, lcVars, mxVars, hVars, rdVars, auVars, pxVars,
                   fnVars, mdVars, reg, bs>>

\* a caller calls get_base_template() and holds what it returned
CallGetBaseTemplate ==
    /\ tm.started /\ tm.calls < MaxCalls
    /\ LET r == get_base_templateObj(tm.heap, tm.template)
       IN  tm' = [tm EXCEPT !.heap = r.heap, !.held = @ \cup {r.out.v},
                            !.calls = @ + 1]
    /\ UNCHANGED <<infVars, lcVars, mxVars, hVars, rdVars, auVars, pxVars,
                   fnVars, mdVars, reg, bs>>

\* a caller builds a manifest, calls merge_with_runtime_values(manifest) and
\* holds both the manifest and what the call returned
CallMergeObj ==
    /\ tm.started /\ tm.calls < MaxCalls
    /\ \E manifest \in RuntimeManifests :
        LET a == HeapAlloc(tm.heap, Map(manifest))
            r == merge_with_runtime_valuesObj(a.heap, tm.template, a.out.v)
        IN  tm' = [tm EXCEPT !.heap = r.heap, !.held = @ \cup {a.out.v, r.out.v},
                             !.calls = @ + 1]
    /\ UNCHANGED <<infVars, lcVars, mxVars, hVars, rdVars, auVars, pxVars,
                   fnVars, mdVars, reg, bs>>

\* the objects a caller reaches from those it holds
RECURSIVE Reach(_, _)
Reach(heap, addrs) ==
    LET next == addrs \cup
                UNION {{heap[a].v[k].v : k \in {j \in DOMAIN heap[a].v :
                                                    heap[a].v[j].t = "ref"}} :
                       a \in {b \in addrs : heap[b].t = "map"}}
    IN  IF next = addrs THEN addrs ELSE Reach(heap, next)

\* a caller changes an object it reaches: d[key] = "m", del d[key], l.append("m")
CallerMutates ==
    /\ tm.muts < MaxMutations
    /\ \E a \in Reach(tm.heap, tm.held) :
        IF tm.heap[a].t = "list"
        THEN tm' = [tm EXCEPT !.muts = @ + 1,
                              !.heap[a] = List(Append(tm.heap[a].v, "m"))]
        ELSE \E key \in {"x", "spec"} :
                tm' = [tm EXCEPT !.muts = @ + 1, !.heap[a] =
                            IF key \in DOMAIN tm.heap[a].v
                            THEN Map([k \in DOMAIN tm.heap[a].v \ {key} |->
                                            tm.heap[a].v[k]])
                            ELSE Map((key :> Str("m")) @@ tm.heap[a].v)]
    /\ UNCHANGED <<infVars, lcVars, mxVars, hVars, rdVars, auVars, pxVars,
                   fnVars, mdVars, reg, bs>>

NextManager ==
    \/ TemplateManagerInit
    \/ CallGetBaseTemplate
    \/ CallMergeObj
    \/ CallerMutates

SpecManager == InitLifecycle /\ [][NextManager]_vars

(***************************************************************************)
(* AgentSandboxTemplateManager (agent_sandbox_template.py), which carries  *)
(* its own _deep_copy and _deep_merge; _deep_merge is followed as the loop *)
(* over override.items() that it is.                                       *)
(***************************************************************************)
RECURSIVE agent_deep_copy(_)
agent_deep_copy(obj) ==
    IF obj.t = "map" THEN Map([k \in DOMAIN obj.v |-> agent_deep_copy(obj.v[k])])
    ELSE IF obj.t = "list" THEN List([i \in 1..Len(obj.v) |-> obj.v[i]])
    ELSE obj

\* the loop keeps a null override value
RECURSIVE agent_deep_mergeKeepNull(_, _, _)
agent_deep_mergeKeepNull(result, override, keys) ==
    IF keys = {} THEN result
    ELSE LET key == CHOOSE k \in keys : TRUE IN
         agent_deep_mergeKeepNull((key :> agent_deep_copy(override[key])) @@ result,
                                  override, keys \ {key})

\* the loop of _deep_merge over the keys of override not yet visited,
\* result being base.copy() at the start
RECURSIVE agent_deep_merge(_, _, _)
agent_deep_merge(result, override, keys) ==
    IF keys = {} THEN result
    ELSE LET key == CHOOSE k \in keys : TRUE
             override_value == override[key]
         IN  IF override_value.t = "null"
             THEN agent_deep_merge(result, override, keys \ {key})
             ELSE IF key \notin DOMAIN result
             THEN agent_deep_merge((key :> agent_deep_copy(override_value)) @@ result,
                                   override, keys \ {key})
             ELSE IF result[key].t = "map" /\ override_value.t = "map"
             THEN agent_deep_merge(
                      (key :> Map(agent_deep_merge(result[key].v, override_value.v,
                                                   DOMAIN override_value.v)))
                          @@ result,
                      override, keys \ {key})
             ELSE agent_deep_merge((key :> agent_deep_copy(override_value)) @@ result,
                                   override, keys \ {key})

agent_get_base_template(template) ==
    IF template # <<>> /\ DOMAIN template[1] # {}
    THEN agent_deep_copy(Map(template[1])).v
    ELSE <<>>

agent_merge_with_runtime_values(template, runtime_manifest) ==
    LET base == agent_get_base_template(template) IN
    IF DOMAIN base = {} THEN runtime_manifest
    ELSE agent_deep_merge(base, runtime_manifest, DOMAIN runtime_manifest)

\* both managers are given the same template and the same manifest
CallBothManagers ==
    /\ calc.op = ""
    /\ \E template \in OptionalOf(Manifests), runtime_manifest \in Manifests :
            Apply("both_managers", <<template, runtime_manifest>>,
                  [base |-> get_base_template(template),
                   merged |-> merge_with_runtime_values(template, runtime_manifest),
                   agent_base |-> agent_get_base_template(template),
                   agent_merged |-> agent_merge_with_runtime_values(template,
                                                                    runtime_manifest)])

NextManagers == CallBothManagers

SpecManagers == InitLifecycle /\ [][NextManagers]_vars

(***************************************************************************)
(* MCP server registry (opensandbox_mcp/server.py).  Tool calls run as     *)
(* tasks of one event loop: a task runs until it awaits something that     *)
(* suspends.  The bodies of ServerState.add, get and remove hold the lock  *)
(* and await nothing, so each runs without another task in between; the    *)
(* lock is free whenever a task is resumed.  Sandbox.connect suspends.     *)
(***************************************************************************)
\* ServerState.get
StateGet(sandboxes, sandbox_id) ==
    IF sandbox_id \in DOMAIN sandboxes THEN sandboxes[sandbox_id] ELSE 0

\* ServerState.add: self.sandboxes[sandbox.id] = sandbox
StateAdd(sandboxes, sandbox_id, sandbox) == (sandbox_id :> sandbox) @@ sandboxes

\* a tool is called with sandbox_id: _get_or_connect_sandbox up to its first
\* suspension, which is the return, the ValueError or Sandbox.connect
GetOrConnectSandbox(t, sandbox_id, connect_if_missing) ==
    /\ reg.task[t].pc = "idle"
    /\ LET sandbox == StateGet(reg.sandboxes, sandbox_id) IN
        reg' = IF sandbox # 0
               THEN [reg EXCEPT !.task[t] = [pc |-> "returned",
                                             sandbox_id |-> sandbox_id,
                                             sandbox |-> sandbox]]
               ELSE IF ~connect_if_missing
               THEN [reg EXCEPT !.task[t] = [pc |-> "raised",
                                             sandbox_id |-> sandbox_id,
                                             sandbox |-> 0]]
               ELSE [reg EXCEPT !.task[t] = [pc |-> "connecting",
                                             sandbox_id |-> sandbox_id,
                                             sandbox |-> reg.objects + 1],
                                !.objects = @ + 1,
                                !.connects[sandbox_id] = @ + 1]
    /\ UNCHANGED <<infVars, lcVars, mxVars, hVars, rdVars, auVars, pxVars,
                   fnVars, mdVars, tm, bs>>

\* Sandbox.connect returns to the task: await state.add(sandbox); return sandbox
ConnectReturns(t) ==
    /\ reg.task[t].pc = "connecting"
    /\ LET id == reg.task[t].sandbox_id IN
        reg' = [reg EXCEPT
                !.sandboxes = StateAdd(@, id, reg.task[t].sandbox),
                !.replaced = IF id \in DOMAIN reg.sandboxes
                             THEN @ \cup {reg.sandboxes[id]} ELSE @,
                !.task[t].pc = "returned"]
    /\ UNCHANGED <<infVars, lcVars, mxVars, hVars, rdVars, auVars, pxVars,
                   fnVars, mdVars, tm, bs>>

NextRegistry ==
    \/ \E t \in Tasks, sandbox_id \in RegistryIds, connect_if_missing \in BOOLEAN :
            GetOrConnectSandbox(t, sandbox_id, connect_if_missing)
    \/ \E t \in Tasks : ConnectReturns(t)

SpecRegistry == InitLifecycle /\ [][NextRegistry]_vars

(***************************************************************************)
(* Resource quantities (services/helpers.py).  A string is the sequence of *)
(* its characters.  A parsed value is <<>> for None or <<n>>; a call that  *)
(* raises returns the record of its exception.  A Python int has no upper  *)
(* limit: it is the sequence of its base-10000 digits, the lowest first,   *)
(* and 0 is the empty sequence.                                            *)
(***************************************************************************)
RECURSIVE Big(_)
Big(n) == IF n = 0 THEN <<>> ELSE <<n % 10000>> \o Big(n \div 10000)

\* a * f + carry for a small factor f > 0
RECURSIVE BigTimes(_, _, _)
BigTimes(a, f, carry) ==
    IF a = <<>> THEN Big(carry)
    ELSE <<(a[1] * f + carry) % 10000>> \o BigTimes(Tail(a), f, (a[1] * f + carry) \div 10000)

\* a times each factor of fs
RECURSIVE BigProduct(_, _)
BigProduct(a, fs) == IF fs = <<>> THEN a ELSE BigProduct(BigTimes(a, fs[1], 0), Tail(fs))

DigitValue ==
    ("0" :> 0) @@ ("1" :> 1) @@ ("2" :> 2) @@ ("3" :> 3) @@ ("4" :> 4)
        @@ ("5" :> 5) @@ ("6" :> 6) @@ ("7" :> 7) @@ ("8" :> 8) @@ ("9" :> 9)

IsDecimal(s) == s # <<>> /\ \A i \in 1..Len(s) : s[i] \in DOMAIN DigitValue

\* int(s) of a string of digits
RECURSIVE int(_)
int(s) == IF s = <<>> THEN <<>> ELSE BigTimes(int(SubSeq(s, 1, Len(s) - 1)), 10, DigitValue[s[Len(s)]])

\* the length of the longest prefix of digits: what (\d+) takes
RECURSIVE DigitPrefix(_)
DigitPrefix(s) ==
    IF s # <<>> /\ s[1] \in DOMAIN DigitValue THEN 1 + DigitPrefix(Tail(s)) ELSE 0

\* ([kmgti]i?|[kmgti]?b)? under re.IGNORECASE
MatchesUnit(unit) ==
    LET u == lower(unit) IN
    \/ u = <<>>
    \/ Len(u) = 1 /\ u[1] \in {"k", "m", "g", "t", "i", "b"}
    \/ Len(u) = 2 /\ u[1] \in {"k", "m", "g", "t", "i"} /\ u[2] \in {"i", "b"}

\* a multiplier is the sequence of its factors: 1024**2 is <<1024, 1024>>
MEMORY_MULTIPLIERS ==
    (<<>> :> <<1>>) @@ (<<"b">> :> <<1>>)
        @@ (<<"k">> :> <<1000>>) @@ (<<"k", "b">> :> <<1000>>)
        @@ (<<"k", "i">> :> <<1024>>)
        @@ (<<"m">> :> <<1000, 1000>>) @@ (<<"m", "b">> :> <<1000, 1000>>)
        @@ (<<"m", "i">> :> <<1024, 1024>>)
        @@ (<<"g">> :> <<1000, 1000, 1000>>) @@ (<<"g", "b">> :> <<1000, 1000, 1000>>)
        @@ (<<"g", "i">> :> <<1024, 1024, 1024>>)
        @@ (<<"t">> :> <<1000, 1000, 1000, 1000>>)
        @@ (<<"t", "b">> :> <<1000, 1000, 1000, 1000>>)
        @@ (<<"t", "i">> :> <<1024, 1024, 1024, 1024>>)

\* parse_memory_limit(value): MEMORY_PATTERN is \s*, digits, the unit, \s*
parse_memory_limit(value) ==
    LET s == lstrip(value)
        n == DigitPrefix(s)
        unit == rstrip(SubSeq(s, n + 1, Len(s)))
    IN  IF value = <<>> THEN <<>>
        ELSE IF n = 0 \/ ~MatchesUnit(unit) THEN <<>>
        ELSE IF lower(unit) \notin DOMAIN MEMORY_MULTIPLIERS THEN <<>>
        ELSE <<BigProduct(int(SubSeq(s, 1, n)), MEMORY_MULTIPLIERS[lower(unit)])>>

\* float(str) of a lower-case string without exponent or underscore, white
\* space around it skipped: a number as [t |-> "num", neg, whole, frac] with
\* the digits before and after the point, nan, inf, or ValueError
float(str) ==
    LET s == strip(str)
        neg == s # <<>> /\ s[1] = "-"
        u == IF s # <<>> /\ s[1] \in {"-", "+"} THEN Tail(s) ELSE s
        n == DigitPrefix(u)
        rest == SubSeq(u, n + 1, Len(u))
        frac == IF rest # <<>> /\ rest[1] = "." THEN Tail(rest) ELSE <<>>
    IN  IF u = <<"n", "a", "n">> THEN [t |-> "nan"]
        ELSE IF u \in {<<"i", "n", "f">>, <<"i", "n", "f", "i", "n", "i", "t", "y">>}
        THEN [t |-> "inf", neg |-> neg]
        ELSE IF /\ n + Len(frac) > 0
                /\ rest = <<>> \/ (rest[1] = "." /\ (frac = <<>> \/ IsDecimal(frac)))
        THEN [t |-> "num", neg |-> neg, whole |-> SubSeq(u, 1, n), frac |-> frac]
        ELSE [t |-> "ValueError"]

\* int(cpus * 1_000_000_000) of the number x, or of x / 1000 with milli:
\* the point moves nine places to the right, or six, and what is left after
\* it is cut off
NanoOf(x, milli) ==
    LET scale == IF milli THEN 6 ELSE 9 IN
    int(x.whole \o [i \in 1..scale |-> IF i <= Len(x.frac) THEN x.frac[i] ELSE "0"])

\* parse_nano_cpus(value): the conversion is inside the try, the comparison
\* with 0 and int() after it
parse_nano_cpus(value) ==
    LET cpu_str == lower(strip(value))
        milli == cpu_str # <<>> /\ cpu_str[Len(cpu_str)] = "m"
        cpus == IF milli THEN float(SubSeq(cpu_str, 1, Len(cpu_str) - 1))
                ELSE float(cpu_str)
    IN  IF value = <<>> THEN <<>>
        ELSE IF cpus.t = "ValueError" THEN <<>>
        ELSE IF cpus.t = "nan" THEN [raised |-> "ValueError"]
        ELSE IF cpus.t = "inf"
        THEN IF cpus.neg THEN <<>> ELSE [raised |-> "OverflowError"]
        ELSE IF cpus.neg \/ (int(cpus.whole) = <<>> /\ int(cpus.frac) = <<>>)
        THEN <<>>
        ELSE <<NanoOf(cpus, milli)>>

Pads == {<<>>, <<" ">>}

MemoryAmounts == {<<>>, <<"0">>, <<"1">>, <<"5", "1", "2">>, <<"-", "1">>, <<"1", ".", "5">>}

UnitLetters == {"k", "K", "m", "M", "g", "G", "t", "T", "i", "I", "b", "B", "x"}

MemoryUnits == {<<>>} \cup {<<a>> : a \in UnitLetters} \cup {<<a, b>> : a \in UnitLetters, b \in {"i", "I", "b", "B", "x"}}

CpuAmounts == {<<>>, <<"2">>, <<"0">>, <<"5", "0", "0">>, <<"1", ".", "5">>, <<".", "5">>, <<"5", ".">>, <<"-", "1">>, <<"1", ".", ".", "5">>, <<"x">>, <<"n", "a", "n">>, <<"N", "a", "N">>, <<"i", "n", "f">>, <<"-", "i", "n", "f">>}

CpuUnits == {<<>>, <<"m">>, <<"M">>, <<"x">>, <<"m", "m">>, <<"c", "p", "u">>}

\* value is written as white space, an amount, white space, a unit, white space
CallParseMemoryLimit ==
    /\ calc.op = ""
    /\ \E lead \in Pads, amount \in MemoryAmounts, mid \in Pads, unit \in MemoryUnits, trail \in Pads :
            Apply("parse_memory_limit", <<lead, amount, mid, unit, trail>>,
                  parse_memory_limit(lead \o amount \o mid \o unit \o trail))

CallParseNanoCpus ==
    /\ calc.op = ""
    /\ \E lead \in Pads, amount \in CpuAmounts, mid \in Pads, unit \in CpuUnits, trail \in Pads :
            Apply("parse_nano_cpus", <<lead, amount, mid, unit, trail>>,
                  parse_nano_cpus(lead \o amount \o mid \o unit \o trail))

NextResources == CallParseMemoryLimit \/ CallParseNanoCpus

SpecResources == InitLifecycle /\ [][NextResources]_vars

(***************************************************************************)
(* The bodies of a proxied request (api/lifecycle.py).  The request body   *)
(* is handed to httpx as request.stream(), the response body to the client *)
(* as resp.aiter_bytes().  A body is a sequence of bytes that travels as a *)
(* sequence of chunks.  A sandbox may answer with Content-Encoding: gzip;  *)
(* compression is stood for by run-length coding, a byte followed by the   *)
(* number of times it occurs, and a chunk of it ends with a run.           *)
(***************************************************************************)
\* chunks of one body
MaxChunks == 2

Bytes == {"a", "b"}

RunLength == ("1" :> 1) @@ ("2" :> 2)

RECURSIVE Flatten(_)
Flatten(chunks) == IF chunks = <<>> THEN <<>> ELSE Head(chunks) \o Flatten(Tail(chunks))

SeqsOver(set, n) == UNION {[1..k -> set] : k \in 0..n}

PlainChunks == {<<x>> : x \in Bytes} \cup {<<x, y>> : x \in Bytes, y \in Bytes}

GzipChunks == {<<x, n>> : x \in Bytes, n \in DOMAIN RunLength}

\* what the decoder of a gzip response makes of a chunk
RECURSIVE decompress(_)
decompress(data) ==
    IF data = <<>> THEN <<>>
    ELSE [i \in 1..RunLength[data[2]] |-> data[1]] \o decompress(SubSeq(data, 3, Len(data)))

\* request.stream(): the next chunk of the body as the client has sent it
request_stream(body) == Head(body)

\* Response.aiter_bytes(): the next chunk of the body with the response's
\* Content-Encoding decoded
aiter_bytes(encoding, wire) ==
    IF encoding = "gzip" THEN decompress(Head(wire)) ELSE Head(wire)

\* a client sends a request to the proxy route; build_request takes the
\* stream of its body
ProxyRequestBegins ==
    /\ bs.pc = "idle"
    /\ \E body \in SeqsOver(PlainChunks, MaxChunks) :
            bs' = [bs EXCEPT !.pc = "sending", !.body = body, !.sent = Flatten(body)]
    /\ UNCHANGED <<infVars, lcVars, mxVars, hVars, rdVars, auVars, pxVars,
                   fnVars, mdVars, tm, reg>>

\* client.send writes the next chunk of the request body to the sandbox
SendRequestChunk ==
    /\ bs.pc = "sending" /\ bs.body # <<>>
    /\ bs' = [bs EXCEPT !.upstream = @ \o request_stream(bs.body), !.body = Tail(@)]
    /\ UNCHANGED <<infVars, lcVars, mxVars, hVars, rdVars, auVars, pxVars,
                   fnVars, mdVars, tm, reg>>

\* the body is sent and the sandbox answers: client.send(req, stream=True)
\* returns with the response's headers, the body still to be read
ClientSendReturns ==
    /\ bs.pc = "sending" /\ bs.body = <<>>
    /\ \E encoding \in {"identity", "gzip"} :
        \E wire \in SeqsOver(IF encoding = "gzip" THEN GzipChunks ELSE PlainChunks, MaxChunks) :
            bs' = [bs EXCEPT !.pc = "receiving", !.encoding = encoding,
                             !.wire = wire, !.replied = Flatten(wire)]
    /\ UNCHANGED <<infVars, lcVars, mxVars, hVars, rdVars, auVars, pxVars,
                   fnVars, mdVars, tm, reg>>

\* StreamingResponse takes the next chunk from resp.aiter_bytes() and writes
\* it to the client
StreamResponseChunk ==
    /\ bs.pc = "receiving" /\ bs.wire # <<>>
    /\ bs' = [bs EXCEPT !.client = @ \o aiter_bytes(bs.encoding, bs.wire),
                        !.wire = Tail(@)]
    /\ UNCHANGED <<infVars, lcVars, mxVars, hVars, rdVars, auVars, pxVars,
                   fnVars, mdVars, tm, reg>>

\* the iterator is exhausted and the response ends
StreamResponseEnds ==
    /\ bs.pc = "receiving" /\ bs.wire = <<>>
    /\ bs' = [bs EXCEPT !.pc = "done"]
    /\ UNCHANGED <<infVars, lcVars, mxVars, hVars, rdVars, auVars, pxVars,
                   fnVars, mdVars, tm, reg>>

NextStream ==
    \/ ProxyRequestBegins
    \/ SendRequestChunk
    \/ ClientSendReturns
    \/ StreamResponseChunk
    \/ StreamResponseEnds

SpecStream == InitLifecycle /\ [][NextStream]_vars

(***************************************************************************)
(*                     Properties of the informer                          *)
(***************************************************************************)

\* C1 (SpecEv).  Whenever _handle_event is given an event that carries a
\* named object: an ADDED or MODIFIED event leaves cache[name] equal to the
\* event's object, a DELETED event leaves name out of the cache, the object's
\* resourceVersion, when present, is the new cursor, and every other cache
\* entry is as before.
C1_EventHandling ==
    [][evn' # evn =>
        LET e == ev'
            n == ev'.obj.name
        IN  (e.hasObj /\ n # NoName) =>
              /\ e.type \in {"ADDED", "MODIFIED"} =>
                    (n \in DOMAIN cache' /\ cache'[n] = e.obj)
              /\ e.type = "DELETED" => n \notin DOMAIN cache'
              /\ e.obj.rv # NoRV => resource_version' = e.obj.rv
              /\ \A m \in Names \ {n} : Lookup(cache', m) = Lookup(cache, m)
    ]_vars

\* A DELETED event for "a" with resourceVersion 2 has been handled: "a" is out
\* of the cache, "b" is still in it and the cursor is 2.
C1_Witness ==
    /\ evn = 1
    /\ ev = MkEvent("DELETED", MkObj("a", 2))
    /\ "a" \notin DOMAIN cache
    /\ "b" \in DOMAIN cache
    /\ resource_version = 2

\* The map a list response stands for: name -> the last item of that name.
NamedItems(items) ==
    [n \in {items[i].name : i \in 1..Len(items)} \ {NoName} |->
        items[CHOOSE i \in 1..Len(items) :
                /\ items[i].name = n
                /\ \A j \in (i + 1)..Len(items) : items[j].name # n]]

\* C2 (Spec).  A full resync replaces the cache in one step: while the list
\* call is out and while the new map is built the thread does not own the
\* lock (readers are not held up) and the steps of the for loop leave
\* self._cache as it is (a get returns the entry from before the resync); the
\* step that ends the resync makes the cache exactly name -> item for the
\* named items of the response, makes the collection resourceVersion the
\* cursor when there is one, and sets has_synced.
C2_AtomicResync ==
    [][ /\ pc \in {"list", "build", "swap"} => lock = "free"
        /\ (pc = "build" /\ (idx' # idx \/ pc' # pc)) =>
              /\ cache' = cache
              /\ \A n \in Names : GetOp(cache', n) = GetOp(cache, n)
        /\ (pc = "swapLocked" /\ pc' # pc) =>
              /\ cache' = NamedItems(listResp.items)
              /\ \A n \in Names :
                    GetOp(cache', n) = Lookup(NamedItems(listResp.items), n)
              /\ resource_version' = IF listResp.rv # NoRV THEN listResp.rv
                                     ELSE resource_version
              /\ has_synced'
    ]_vars

\* The new map is complete and not yet swapped in; the lock is free, and a
\* get of a name the response no longer has still returns the old entry.
C2_Witness ==
    /\ pc = "swap"
    /\ lock = "free"
    /\ Len(listResp.items) >= 1
    /\ \E n \in Names :
        /\ n \in DOMAIN cache
        /\ n \notin DOMAIN new_cache
        /\ GetOp(cache, n) # NoneObj

\* C3 (Spec).  The step that handles a 410 leaves the cursor None and the
\* informer not synced; from then until a list has completed the thread opens
\* no watch session, and the first call it makes is the list call.
C3_GoneRecovery ==
    [][ /\ (pc = "watching" /\ gone' /\ ~gone) =>
              (resource_version' = NoRV /\ ~has_synced' /\ pc' = "top")
        /\ gone => pc \in {"top", "list", "build", "swap", "swapLocked",
                           "backoff_wait", "done"}
        /\ (gone /\ pc = "top" /\ pc' # pc) => pc' \in {"list", "done"}
        /\ (gone /\ ~gone') => (pc = "swapLocked" /\ has_synced')
    ]_vars

\* After a 410 the thread has issued the list call, with no cursor.
C3_Witness ==
    /\ gone
    /\ pc = "list"
    /\ resource_version = NoRV
    /\ ~has_synced

\* C4 (Spec), as stated: in degraded mode every resync-period wait follows a
\* full resync made since the previous wait.
C4_PeriodicResync ==
    (~enable_watch /\ pc = "resync_wait") => resynced

\* C5 (FairSpec), as stated: unless it is stopped, the informer ends up with a
\* cache equal to the runtime's objects, for good.
CacheMatchesRuntime == cache = srvObjs

C5_EventuallyConsistent == <>[](stop_event \/ CacheMatchesRuntime)

\* C6 (Spec).  A session that ends without error leaves the informer synced
\* and the cursor as it is; a synced thread at the top of the loop goes on to
\* the watch without a list call; and the session it opens starts from the
\* cursor held at that moment.
C6_WatchTimeout ==
    [][ /\ (pc = "watching" /\ pc' = "top" /\ ~gone') =>
              (has_synced' /\ resource_version' = resource_version
                /\ cache' = cache)
        /\ (pc = "top" /\ has_synced /\ ~stop_event /\ pc' # pc) =>
              pc' = "synced"
        /\ (pc = "synced" /\ enable_watch /\ pc' # pc) =>
              /\ pc' = "watching"
              /\ has_synced
              /\ resource_version # NoRV
              /\ wpos' = resource_version
              /\ wsynth' = EmptyCache
    ]_vars

\* A session has ended without error after the cursor moved past the
\* resourceVersion of the last list, and the thread is about to go on.
C6_Witness ==
    /\ pc = "top"
    /\ has_synced
    /\ enable_watch
    /\ ~stop_event
    /\ resource_version > listResp.rv
    /\ wpos > listResp.rv

RECURSIVE Pow2(_)
Pow2(k) == IF k <= 0 THEN 1 ELSE 2 * Pow2(k - 1)

\* C7 (SpecBackoff).  The wait after the k-th failure in a row (k counted
\* from the last successful list or error-free watch session) is
\* min(2^(k-1), 30) seconds, and no wait is longer than 30.
C7_Backoff ==
    /\ waited <= 30
    /\ pc = "backoff_wait" =>
          (fails >= 1 /\ waited = Min(Pow2(fails - 1), 30))

\* The seventh failure in a row: the wait is 30 seconds, as was the sixth.
C7_Witness ==
    /\ pc = "backoff_wait"
    /\ fails = 7
    /\ waited = 30

(***************************************************************************)
(*                 Properties of the sandbox lifecycle                     *)
(***************************************************************************)
\* The sandbox a client is shown for an id.
View(id) == BuildSandboxFromWorkload(sb[id])
ViewNext(id) == BuildSandboxFromWorkload(sb'[id])

\* A step in which a route answered a call.
Answered == resp'.n # resp.n

C11_RenewRejected ==
    [][(Answered /\ resp'.op = "renew" /\ sb[resp'.id].exists)
          => /\ (resp'.t <= now \/ resp'.t <= sb[resp'.id].expires_at)
                    => /\ resp'.status \in {400, 409}
                       /\ resp'.rt = ""
             /\ resp'.status # 200
                    => /\ sb'[resp'.id].expires_at = sb[resp'.id].expires_at
                       /\ ViewNext(resp'.id).expires_at = View(resp'.id).expires_at
                       /\ sb' = sb]_vars

\* A renewal to a time in the future that does not extend the expiration was
\* answered with the conflict.
C11_Witness ==
    /\ resp.op = "renew" /\ resp.id = "s1"
    /\ resp.status = 409 /\ resp.code = "EXPIRATION_NOT_EXTENDED"
    /\ resp.t > now /\ resp.t <= sb["s1"].expires_at
    /\ sb["s1"].exists /\ sb["s1"].state = "Running"

InRoundTrip(c) == cl[c].pc = "holding"

\* C13: the round trips of two mutating calls on the same sandbox id never
\* overlap, and a call's result and effect are those of the whole call made at
\* the moment it completes, so two concurrent calls end as one of their two
\* sequential orders; a call is held up only by a call on its own id.
C13_PerIdSerial ==
    [][/\ \A c \in Clients, d \in Clients :
             (c # d /\ cl'[c].pc = "holding" /\ cl'[d].pc = "holding")
                 => cl'[c].id # cl'[d].id
       /\ \A c \in Clients :
             (InRoundTrip(c) /\ cl'[c].pc = "done")
                 => LET r == ServiceOf(cl[c].op, cl[c].id, cl[c].t) IN
                      /\ cl'[c].status = r.status
                      /\ cl'[c].code = r.code
                      /\ sb' = r.sb
       /\ \A c \in Clients :
             (/\ cl[c].pc = "waiting"
              /\ \A d \in Clients : InRoundTrip(d) => cl[d].id # cl[c].id)
                 => ENABLED Acquire(c)]_vars

\* A renew waits for the mutex of s1 while a delete of s1 is with the runtime.
C13_Witness ==
    /\ InRoundTrip("c1") /\ cl["c1"].op = "delete" /\ cl["c1"].id = "s1"
    /\ cl["c1"].status = 0
    /\ cl["c2"].pc = "waiting" /\ cl["c2"].op = "renew" /\ cl["c2"].id = "s1"
    /\ mutex["s1"] = "c1"

ReportsHealthy == probe.pc = "done" /\ probe.healthy

RECURSIVE Split(_)
Split(s) ==
    IF s = <<>> THEN << <<>> >>
    ELSE IF Head(s) = "/" THEN << <<>> >> \o Split(Tail(s))
    ELSE LET r == Split(Tail(s)) IN << <<Head(s)>> \o Head(r) >> \o Tail(r)

AllDigits(g) == g # <<>> /\ \A k \in 1..Len(g) : g[k] \in {"8"}

\* sandboxes/{id}/proxy/{digits}[/...]
ProxySegs(t) ==
    /\ Len(t) >= 4
    /\ t[1] = <<"sandboxes">> /\ t[2] # <<>> /\ t[3] = <<"proxy">>
    /\ AllDigits(t[4])

\* the segments after the leading slash and an optional v1
AfterV1(path) ==
    LET g == Split(path)
    IN  IF Len(g) >= 2 /\ g[2] = <<"v1">> THEN SubSeq(g, 3, Len(g)) ELSE Tail(g)

HasProxyShape(path) == path # <<>> /\ Head(path) = "/" /\ ProxySegs(AfterV1(path))

MentionsDotDot(path) ==
    \E n \in 1..Len(Split(path)) :
        LET g == Split(path)[n]
        IN  \E k \in 1..(Len(g) - 1) : g[k] = "." /\ g[k + 1] = "."

KeyConfigured == au.valid_api_keys # {}

HeaderAbsent == API_KEY_HEADER \notin DOMAIN au.headers

HeaderEmpty == ~HeaderAbsent /\ au.headers[API_KEY_HEADER] = <<>>

HeaderIsKey == ~HeaderAbsent /\ au.headers[API_KEY_HEADER] \in au.valid_api_keys

Rejected(code) == au.status = 401 /\ au.code = code /\ au.calls = 0

\* C17: with an API key configured, a request without an API key whose path
\* has the proxy-route shape (/v1)?/sandboxes/{id}/proxy/{digits}[/...] and
\* contains no '..' is handed to the route handler and is not answered 401 by
\* the middleware.
C17_ProxyExempt ==
    (/\ au.served /\ KeyConfigured
     /\ HeaderAbsent \/ HeaderEmpty
     /\ HasProxyShape(au.path) /\ ~MentionsDotDot(au.path))
        => (au.calls = 1 /\ au.status # 401 /\ au.code = "")

\* GET /v1/sandboxes/x/proxy/8 without a key reached the handler.
C17_Witness ==
    /\ au.served /\ KeyConfigured /\ HeaderAbsent
    /\ au.path = <<"/", "v1", "/", "sandboxes", "/", "x", "/", "proxy", "/", "8">>
    /\ au.calls = 1 /\ au.status = 200

\* C18: with an API key configured, a request whose path contains '..' and
\* that carries no valid key is answered 401 and the route handler is not
\* invoked.
C18_NoTraversalExemption ==
    (/\ au.served /\ KeyConfigured
     /\ MentionsDotDot(au.path) /\ ~HeaderIsKey)
        => (au.status = 401 /\ au.calls = 0)

\* the malformed proxy paths: a port that is not a number, proxy and
\* sandboxes swapped, one segment in front of the proxy route
NonNumericPort(path) ==
    LET t == AfterV1(path)
    IN  /\ Len(t) >= 4
        /\ t[1] = <<"sandboxes">> /\ t[2] # <<>> /\ t[3] = <<"proxy">>
        /\ ~AllDigits(t[4])

SwappedSegments(path) ==
    LET g == Split(path)
    IN  Len(g) >= 3 /\ g[2] = <<"proxy">> /\ g[3] = <<"sandboxes">>

ExtraPrefix(path) ==
    LET g == Split(path)
    IN  /\ Len(g) >= 3 /\ g[2] # <<>> /\ g[2] # <<"v1">>
        /\ ProxySegs(SubSeq(g, 3, Len(g)))

\* C19: with an API key configured, a request without a key whose path is a
\* malformed proxy path (non-numeric port, swapped segments, extra prefix) is
\* answered 401 MISSING_API_KEY.
C19_MalformedProxyAuthenticated ==
    (/\ au.served /\ KeyConfigured /\ HeaderAbsent
     /\ Head(au.path) = "/" /\ ~HasProxyShape(au.path)
     /\ NonNumericPort(au.path) \/ SwappedSegments(au.path) \/ ExtraPrefix(au.path))
        => Rejected("MISSING_API_KEY")

\* a path neither under /health or a documentation route nor a proxy route
NonExempt(path) ==
    LET g == Split(path)
    IN  /\ ~(/\ Len(g) >= 2 /\ g[1] = <<>> /\ g[2] # <<>>
             /\ g[2][1] \in {"health", "docs", "redoc", "openapi.json"})
        /\ ~(HasProxyShape(path) /\ ~MentionsDotDot(path))

\* C20 as stated: on a non-exempt path with a key configured, no header gives
\* 401 MISSING_API_KEY, a header that differs from the configured key gives
\* 401 INVALID_API_KEY, both without invoking the handler, and the configured
\* key reaches the handler exactly once.
C20_AuthOutcomesAsStated ==
    (au.served /\ KeyConfigured /\ NonExempt(au.path))
        => /\ HeaderAbsent => Rejected("MISSING_API_KEY")
           /\ (~HeaderAbsent /\ ~HeaderIsKey) => Rejected("INVALID_API_KEY")
           /\ HeaderIsKey => (au.calls = 1 /\ au.status # 401)

\* C20: on a non-exempt path with a key configured, a request without the
\* header or with an empty header gets 401 MISSING_API_KEY, a request whose
\* non-empty header differs from the configured key gets 401 INVALID_API_KEY,
\* both without invoking the handler, and a request with the configured key
\* reaches the handler exactly once.
C20_AuthOutcomes ==
    (au.served /\ KeyConfigured /\ NonExempt(au.path))
        => /\ (HeaderAbsent \/ HeaderEmpty) => Rejected("MISSING_API_KEY")
           /\ (~HeaderAbsent /\ ~HeaderEmpty /\ ~HeaderIsKey)
                    => Rejected("INVALID_API_KEY")
           /\ HeaderIsKey => (au.calls = 1 /\ au.status # 401 /\ au.code = "")

\* GET /x with a wrong key was answered 401 INVALID_API_KEY.
C20_Witness ==
    /\ au.served /\ KeyConfigured
    /\ au.path = <<"/", "x">>
    /\ ~HeaderAbsent /\ au.headers[API_KEY_HEADER] = <<"wrong">>
    /\ Rejected("INVALID_API_KEY")

(***************************************************************************)
(*                 Properties of the endpoint resolution                   *)
(***************************************************************************)
\* the address without a leading "*."
WithoutStarDot(address) ==
    IF Len(address) >= 2 /\ address[1] = "*" /\ address[2] = "."
    THEN Tail(Tail(address))
    ELSE address

IdDashPort(sandbox_id, port) == sandbox_id \o <<"-">> \o <<ToString(port)>>

\* C26: format_ingress_endpoint returns '<sandbox_id>-<port>.<base>' in
\* wildcard mode (base is the address without its leading '*.'),
\* '<address>/<sandbox_id>/<port>' in uri mode, the address with the header
\* X-OpenSandbox-Ingress: '<sandbox_id>-<port>' in header mode, and nothing
\* when ingress is absent or not in gateway mode; headers are present only in
\* header mode.
C26_IngressFormat ==
    calc.op = "format_ingress_endpoint" =>
        LET cfg == calc.args[1]
            sid == calc.args[2]
            port == calc.args[3]
            out == calc.out
            gateway == cfg # <<>> /\ cfg[1].mode = "gateway"
            routed(mode) == /\ gateway /\ cfg[1].gateway # <<>>
                            /\ cfg[1].gateway[1].route = mode
            address == cfg[1].gateway[1].address
        IN  /\ ~gateway => out = <<>>
            /\ routed("wildcard") =>
                    /\ out # <<>>
                    /\ out[1].endpoint
                        = IdDashPort(sid, port) \o <<".">> \o WithoutStarDot(address)
                    /\ out[1].headers = <<>>
            /\ routed("uri") =>
                    /\ out # <<>>
                    /\ out[1].endpoint
                        = address \o <<"/">> \o sid \o <<"/">> \o <<ToString(port)>>
                    /\ out[1].headers = <<>>
            /\ routed("header") =>
                    /\ out # <<>>
                    /\ out[1].endpoint = address
                    /\ out[1].headers
                        = << ("X-OpenSandbox-Ingress" :> IdDashPort(sid, port)) >>
            /\ (out # <<>> /\ out[1].headers # <<>>) => routed("header")

\* format_ingress_endpoint(wildcard "*.example.com", "sid", 8080) returned
\* "sid-8080.example.com".
C26_Witness ==
    /\ calc.op = "format_ingress_endpoint"
    /\ calc.args[1] = << [mode |-> "gateway",
                          gateway |-> << [address |-> <<"*", ".", "example.com">>,
                                          route |-> "wildcard"] >>] >>
    /\ calc.args[2] = <<"sid">> /\ calc.args[3] = 8080
    /\ calc.out[1].endpoint = <<"sid", "-", "8080", ".", "example.com">>

\* C27: get_endpoint on the local daemon returns, in host mode,
\* '<bind-host>:<port>' and for internal resolution '127.0.0.1:<port>'; in
\* bridge mode '<bind-host>:<host-mapped http port>' for port 8080,
\* '<bind-host>:<host-mapped embedding-proxy port>/proxy/<port>' for every
\* other port, and for internal resolution '<container-ip>:<port>'.
C27_DirectEndpoint ==
    calc.op = "get_endpoint" =>
        LET docker == calc.args[1]
            port == calc.args[3]
            internal == calc.args[4]
            host == docker.network_mode = "host"
            bridge == docker.network_mode = "bridge"
            got == calc.out.endpoint
            p == ToString(port)
        IN  /\ calc.out.exc = ""
            /\ (host /\ ~internal) => got = <<docker.bind_ip, ":", p>>
            /\ (host /\ internal) => got = <<"127.0.0.1", ":", p>>
            /\ (bridge /\ ~internal /\ port = 8080)
                    => got = <<docker.bind_ip, ":", docker.http_port>>
            /\ (bridge /\ ~internal /\ port # 8080)
                    => got = <<docker.bind_ip, ":", docker.embedding_proxy_port,
                               "/", "proxy", "/", p>>
            /\ (bridge /\ internal) => got = <<docker.ip_address, ":", p>>

\* get_endpoint("sbx-123", 6000) in bridge mode returned
\* "192.168.1.100:50002/proxy/6000".
C27_Witness ==
    /\ calc.op = "get_endpoint"
    /\ calc.args[1].network_mode = "bridge" /\ calc.args[3] = 6000 /\ ~calc.args[4]
    /\ calc.out.endpoint = <<"192.168.1.100", ":", "50002", "/", "proxy", "/", "6000">>

(***************************************************************************)
(*                    Properties of the reverse proxy                      *)
(***************************************************************************)
\* two letters that differ in case only
CasePairs == {{"A", "a"}, {"C", "c"}, {"H", "h"}, {"K", "k"}, {"P", "p"}, {"R", "r"},
              {"T", "t"}, {"U", "u"}}

\* two header names equal when case is ignored
SameName(a, b) ==
    /\ Len(a) = Len(b)
    /\ \A i \in 1..Len(a) : a[i] = b[i] \/ {a[i], b[i]} \in CasePairs

\* the names that are not forwarded
HeldBack ==
    {<<"H", "ost">>, <<"C", "onnection">>, <<"K", "eep-alive">>,
     <<"P", "roxy-authenticate">>, <<"P", "roxy-authorization">>, <<"T", "e">>,
     <<"T", "railers">>, <<"T", "ransfer-encoding">>, <<"U", "pgrade">>,
     <<"A", "uthorization">>, <<"C", "ookie">>}

Forwarded(name) == \E k \in DOMAIN px.headers : SameName(k, name)

\* C21: of a request that is proxied, a header is forwarded upstream if and
\* only if its name, compared case-insensitively, is not Host, not a
\* hop-by-hop header and not Authorization or Cookie; every forwarded header
\* is one of the request with a value the client sent under that name; and
\* Authorization and Cookie never reach the sandbox.
C21_HeaderFiltering ==
    (px.served /\ px.sent) =>
        /\ \A i \in 1..Len(px.items) :
                Forwarded(px.items[i][1])
                    <=> ~(\E h \in HeldBack : SameName(h, px.items[i][1]))
        /\ \A k \in DOMAIN px.headers :
                \E i \in 1..Len(px.items) :
                    SameName(k, px.items[i][1]) /\ px.headers[k] = px.items[i][2]
        /\ ~Forwarded(<<"A", "uthorization">>) /\ ~Forwarded(<<"C", "ookie">>)

\* A request with Cookie and accept was proxied with accept alone.
C21_Witness ==
    /\ px.served /\ px.sent
    /\ px.items = << << <<"C", "ookie">>, "v" >>, << <<"a", "ccept">>, "w" >> >>
    /\ DOMAIN px.headers = {<<"a", "ccept">>} /\ px.headers[<<"a", "ccept">>] = "w"

\* the value of the first line named Upgrade is websocket
RECURSIVE UpgradeIsWebsocket(_)
UpgradeIsWebsocket(lines) ==
    /\ lines # <<>>
    /\ IF SameName(Head(lines)[1], <<"U", "pgrade">>)
       THEN Head(lines)[2] = "websocket"
       ELSE UpgradeIsWebsocket(Tail(lines))

\* C22: a proxy request that asks for the WebSocket upgrade (GET with
\* Upgrade: websocket) to a sandbox that exists is answered 400 and no
\* request is sent to the sandbox.
C22_WebSocketRefused ==
    (/\ px.served /\ px.outcome # "NotFound"
     /\ px.method = "GET" /\ UpgradeIsWebsocket(px.items))
        => (px.status = 400 /\ ~px.sent)

\* C23: when the connection to the in-container agent is refused the proxy
\* answers 502.
C23_UpstreamRefused ==
    (px.served /\ px.sent /\ px.outcome = "ConnectError") => px.status = 502

\* A POST was sent, the connection was refused, the answer was 502.
C23_Witness ==
    /\ px.served /\ px.sent /\ px.method = "POST"
    /\ px.outcome = "ConnectError" /\ px.status = 502

\* C24: when the request to the in-container agent times out (connect or
\* read timeout) the proxy answers 502.
C24_UpstreamTimeout ==
    (px.served /\ px.sent /\ px.outcome \in {"ConnectTimeout", "ReadTimeout"})
        => px.status = 502

\* the provider's internal host:port of the sandbox
InternalAddress(docker, port) ==
    IF docker.network_mode = "host"
    THEN <<"127.0.0.1", ":", ToString(port)>>
    ELSE <<docker.ip_address, ":", ToString(port)>>

\* C25: the address the proxy forwards to is the provider's internal
\* host:port of the sandbox, never an externally bound or rewritten one.
C25_InternalResolution ==
    (px.served /\ px.outcome # "NotFound")
        => px.target = <<"http://">> \o InternalAddress(px.cfg, px.port)
                            \o <<"/", "foo">>

(***************************************************************************)
(*                    Properties of the list filter                        *)
(***************************************************************************)
FilterStates(filter_) ==
    IF filter_ = <<>> \/ filter_[1].state = <<>> THEN <<>> ELSE filter_[1].state[1]

FilterMetadata(filter_) ==
    IF filter_ = <<>> \/ filter_[1].metadata = <<>> THEN <<>> ELSE filter_[1].metadata[1]

StateMatches(sandbox, filter_) ==
    \/ Len(FilterStates(filter_)) = 0
    \/ \E i \in 1..Len(FilterStates(filter_)) :
            /\ sandbox.status.state # <<>>
            /\ SameName(sandbox.status.state[1], FilterStates(filter_)[i])

MetadataMatches(sandbox, filter_) ==
    \A k \in DOMAIN FilterMetadata(filter_) :
        /\ sandbox.metadata # <<>>
        /\ k \in DOMAIN sandbox.metadata[1]
        /\ sandbox.metadata[1][k] = FilterMetadata(filter_)[k]

\* C28: matches_filter(sandbox, filter) is true exactly when (the filter has
\* no states, or the sandbox's state equals one of them ignoring case) and
\* (every key of the filter's metadata is in the sandbox's metadata with an
\* equal value); an absent or empty filter matches every sandbox.
C28_ListFilter ==
    calc.op = "matches_filter" =>
        /\ calc.out = (StateMatches(calc.args[1], calc.args[2])
                        /\ MetadataMatches(calc.args[1], calc.args[2]))
        /\ (Len(FilterStates(calc.args[2])) = 0
              /\ DOMAIN FilterMetadata(calc.args[2]) = {}) => calc.out = TRUE

\* state=[Running], metadata={role: a} matched a sandbox in state running
\* with role a and team x.
C28_Witness ==
    /\ calc.op = "matches_filter"
    /\ calc.args[2] = <<[state |-> << <<<<"R", "unning">>>> >>,
                         metadata |-> <<"role" :> "a">>]>>
    /\ calc.args[1] = [status |-> [state |-> << <<"r", "unning">> >>],
                       metadata |-> <<("role" :> "a") @@ ("team" :> "x")>>]
    /\ calc.out = TRUE

(***************************************************************************)
(*                    Properties of the metadata                           *)
(***************************************************************************)
\* the key-value pairs of an optional metadata map
Pairs(opt) == IF opt = <<>> THEN {} ELSE {<<k, opt[1][k]>> : k \in DOMAIN opt[1]}

Reserved(opt) == \E kv \in Pairs(opt) : kv[1][1] = "opensandbox.io/"

\* C29: for every metadata map that create accepts, create followed by get
\* returns user metadata equal to the spec's metadata (no key dropped, none
\* added); a map with a key beginning with opensandbox.io/ is not accepted,
\* and no such key is in the returned user metadata.
C29_MetadataRoundTrip ==
    /\ md.pc = "got" => Pairs(md.returned) = Pairs(md.metadata)
    /\ md.accepted => ~Reserved(md.metadata)
    /\ md.pc = "got" => ~Reserved(md.returned)

(***************************************************************************)
(*                 Properties of the template manager                      *)
(***************************************************************************)
\* r is o merged on top of t by the four rules
RECURSIVE Merged(_, _, _)
Merged(t, o, r) ==
    /\ DOMAIN r = DOMAIN t \cup {k \in DOMAIN o : o[k].t # "null"}
    /\ \A k \in DOMAIN r :
        IF k \notin DOMAIN o THEN r[k] = t[k]
        ELSE IF o[k].t = "null" THEN r[k] = t[k]
        ELSE IF k \in DOMAIN t /\ t[k].t = "map" /\ o[k].t = "map"
             THEN r[k].t = "map" /\ Merged(t[k].v, o[k].v, r[k].v)
        ELSE r[k] = o[k]

TemplateLoaded == calc.args[1] # <<>> /\ DOMAIN calc.args[1][1] # {}

C34_CursorMonotone ==
    [][/\ (resource_version # NoRV /\ resource_version' # NoRV)
            => resource_version' >= resource_version
       /\ (resource_version # NoRV /\ resource_version' = NoRV)
            => (pc = "watching" /\ wpos < compactRV /\ gone')]_vars

\* C35: an object inserted with update_cache is not removed by a full resync
\* whose list call was issued before the insertion: when the list swapped in
\* is older than an object of the cache, the object stays readable.
C35_NoLostUpsert ==
    [][\A n \in Names :
            (pc = "swapLocked" /\ n \in DOMAIN cache /\ cache[n].rv > listResp.rv)
                => (n \in DOMAIN cache' /\ GetOp(cache', n) # NoneObj)]_vars

\* C36: after stop() no watch event received afterwards is applied to the
\* cache, and the background loop terminates once the list call, wait or
\* watch session in progress returns: the thread issues no further list
\* call and opens no further watch session.
C36_Shutdown ==
    [][stop_event =>
        /\ (pc = "watching" => (wpos' = wpos /\ wsynth' = wsynth))
        /\ (pc' = "list" => pc = "list")
        /\ (pc' = "watching" => pc = "watching")]_vars

(***************************************************************************)
(*            Properties of the exempt paths and of no key                 *)
(***************************************************************************)
\* the health route and the documentation routes themselves
ExemptRoute(path) ==
    LET g == Split(path)
    IN  /\ Len(g) = 2 /\ g[1] = <<>>
        /\ g[2] \in {<<"health">>, <<"docs">>, <<"redoc">>, <<"openapi.json">>}

\* a path of non-empty segments: /a/b/c
PlainPath(path) ==
    LET g == Split(path)
    IN  Len(g) >= 2 /\ g[1] = <<>> /\ \A i \in 2..Len(g) : g[i] # <<>>

\* C37: with an API key configured, a request without a valid key bypasses
\* authentication only on the health route, the documentation routes and
\* the proxy-route shape; on every other path, one that merely begins with
\* /health, /docs, /redoc or /openapi.json included, it is answered 401 and
\* the handler is not invoked.
C37_ExemptExact ==
    (/\ au.served /\ KeyConfigured /\ ~HeaderIsKey /\ PlainPath(au.path)
     /\ ~ExemptRoute(au.path) /\ ~HasProxyShape(au.path))
        => (au.status = 401 /\ au.calls = 0)

\* the configured api_key is absent, empty or white space only
NoKeyConfigured ==
    \/ au.api_key = <<>>
    \/ \A k \in 1..Len(au.api_key[1]) : au.api_key[1][k] = " "

\* C40: when the configured api_key is absent, empty or only white space,
\* every request on every path reaches the route handler, whatever its
\* OPEN-SANDBOX-API-KEY header, and the middleware answers no 401.
C40_NoKeyNoAuth ==
    (au.served /\ NoKeyConfigured)
        => (au.calls = 1 /\ au.status # 401 /\ au.code = "")

\* With a key of white space configured, GET /x with a key reached the handler.
C40_Witness ==
    /\ au.served /\ au.api_key = << <<" ">> >>
    /\ au.path = <<"/", "x">>
    /\ ~HeaderAbsent /\ au.headers[API_KEY_HEADER] = <<"wrong">>
    /\ au.calls = 1 /\ au.status = 200

(***************************************************************************)
(*         Properties of the template manager's cached template            *)
(***************************************************************************)
\* the value an object of the heap holds, its dicts and lists read through
RECURSIVE ValueAt(_, _)
ValueAt(heap, val) ==
    IF val.t # "ref" THEN val
    ELSE IF heap[val.v].t = "list" THEN heap[val.v]
    ELSE Map([k \in DOMAIN heap[val.v].v |-> ValueAt(heap, heap[val.v].v[k])])

\* C31: after any sequence of get_base_template and merge_with_runtime_values
\* calls, and any later change made by callers to the objects those calls
\* returned or to the manifests they passed in, the cached template equals
\* the value loaded at startup.
C31_TemplateImmutable ==
    (tm.started /\ tm.template # <<>>)
        => ValueAt(tm.heap, Ref(tm.template[1])) = tm.loaded[1]

\* Two calls were made and a caller has changed an object a call returned;
\* the template is the loaded one.
C31_Witness ==
    /\ tm.template # <<>> /\ tm.calls = 2
    /\ DOMAIN tm.loaded[1].v # {}
    /\ \E a \in tm.held :
            /\ tm.heap[a].t = "map"
            /\ "x" \in DOMAIN tm.heap[a].v /\ tm.heap[a].v["x"] = Str("m")
    /\ ValueAt(tm.heap, Ref(tm.template[1])) = tm.loaded[1]

\* C38: given the same template and the same runtime manifest, the base
\* manager and the agent-sandbox manager return equal results from
\* get_base_template and from merge_with_runtime_values, the case with no
\* template configured included.
C38_ManagersAgree ==
    calc.op = "both_managers"
        => /\ calc.out.agent_base = calc.out.base
           /\ calc.out.agent_merged = calc.out.merged

\* Both managers merged a nested template with a manifest that overrides a
\* nested key, leaves one to a null and adds one.
C38_Witness ==
    /\ calc.op = "both_managers"
    /\ calc.args[1] # <<>>
    /\ "spec" \in DOMAIN calc.args[1][1] /\ calc.args[1][1]["spec"].t = "map"
    /\ "spec" \in DOMAIN calc.args[2] /\ calc.args[2]["spec"].t = "map"
    /\ "kind" \in DOMAIN calc.args[2] /\ calc.args[2]["kind"] = Null
    /\ calc.out.agent_merged = calc.out.merged
    /\ calc.out.merged # calc.args[2]
    /\ calc.out.merged # calc.args[1][1]

\* Without a template both managers return an empty base and the manifest.
C38_WitnessNoTemplate ==
    /\ calc.op = "both_managers"
    /\ calc.args[1] = <<>>
    /\ calc.out.agent_base = <<>> /\ calc.out.base = <<>>
    /\ calc.out.agent_merged = calc.args[2]

(***************************************************************************)
(*                  Properties of the MCP sandbox registry                 *)
(***************************************************************************)
\* C39: for any interleaving of concurrent tool calls on the same sandbox_id
\* with connect_if_missing = true, at most one Sandbox.connect is performed
\* for that id and no connected Sandbox in the registry is replaced by a
\* second connection.
C39_SingleConnect ==
    /\ \A id \in RegistryIds : reg.connects[id] <= 1
    /\ reg.replaced = {}

(***************************************************************************)
(*                    Properties of resource parsing                       *)
(***************************************************************************)
Rank == ("k" :> 1) @@ ("m" :> 2) @@ ("g" :> 3) @@ ("t" :> 4)

\* no suffix, b, one of k m g t, or one of those followed by b or i
Recognized(u) ==
    \/ u \in {<<>>, <<"b">>}
    \/ /\ Len(u) \in {1, 2} /\ u[1] \in DOMAIN Rank
       /\ Len(u) = 2 => u[2] \in {"i", "b"}

\* amount times 1024 (binary suffix) or 1000, as many times as the rank of
\* the suffix's letter
Scaled(amount, u) ==
    IF u \in {<<>>, <<"b">>} THEN int(amount)
    ELSE BigProduct(int(amount),
                    [i \in 1..Rank[u[1]] |->
                        IF Len(u) = 2 /\ u[2] = "i" THEN 1024 ELSE 1000])

\* digits, at most one point among them, at least one digit
IsNumber(s) ==
    /\ \E i \in 1..Len(s) : s[i] \in DOMAIN DigitValue
    /\ \A i \in 1..Len(s) : s[i] \in DOMAIN DigitValue \cup {"."}
    /\ Cardinality({i \in 1..Len(s) : s[i] = "."}) <= 1

\* parse_memory_limit of an amount directly followed by a recognized suffix
\* is amount x multiplier
MemoryParsed ==
    (/\ calc.op = "parse_memory_limit"
     /\ calc.args[1] = <<>> /\ calc.args[3] = <<>> /\ calc.args[5] = <<>>
     /\ IsDecimal(calc.args[2]) /\ Recognized(lower(calc.args[4])))
        => calc.out = <<Scaled(calc.args[2], lower(calc.args[4]))>>

\* 512Mi is 536870912 bytes
MemoryExample ==
    (/\ calc.op = "parse_memory_limit"
     /\ calc.args = << <<>>, <<"5", "1", "2">>, <<>>, <<"M", "i">>, <<>> >>)
        => calc.out = <<Big(536870912)>>

\* parse_memory_limit of an amount that is not a non-negative integer, of an
\* unknown unit, or of an amount and a unit apart, is None
MemoryMalformedUnset ==
    (/\ calc.op = "parse_memory_limit"
     /\ \/ ~IsDecimal(calc.args[2])
        \/ ~Recognized(lower(calc.args[4]))
        \/ calc.args[3] # <<>> /\ calc.args[4] # <<>>)
        => calc.out = <<>>

\* '500m' is 500000000 nano-CPUs and '2' is 2000000000
CpuExamples ==
    /\ (/\ calc.op = "parse_nano_cpus"
        /\ calc.args = << <<>>, <<"5", "0", "0">>, <<>>, <<"m">>, <<>> >>)
            => calc.out = <<Big(500000000)>>
    /\ (/\ calc.op = "parse_nano_cpus"
        /\ calc.args = << <<>>, <<"2">>, <<>>, <<>>, <<>> >>)
            => calc.out = <<Big(2000000000)>>

\* parse_nano_cpus of an amount that is not a number, or of a unit other
\* than m, is None
CpuMalformedUnset ==
    (/\ calc.op = "parse_nano_cpus"
     /\ \/ ~IsNumber(calc.args[2]) /\ ~(calc.args[2] # <<>> /\ calc.args[2][1] = "-" /\ IsNumber(Tail(calc.args[2])))
        \/ lower(calc.args[4]) \notin {<<>>, <<"m">>})
        => calc.out = <<>>

\* C32: parse_memory_limit returns amount x multiplier for every
\* non-negative integer amount and recognized suffix, case-insensitively (no
\* suffix or b = 1; k, m, g, t and kb, mb, gb, tb powers of 1000; Ki, Mi, Gi,
\* Ti powers of 1024; 512Mi = 536870912); parse_nano_cpus returns 500000000
\* for '500m' and 2000000000 for '2'; an unknown unit or a malformed value
\* yields None, never zero.
C32_ResourceParsing ==
    /\ MemoryParsed
    /\ MemoryExample
    /\ MemoryMalformedUnset
    /\ CpuExamples
    /\ CpuMalformedUnset

(***************************************************************************)
(*                  Properties of the proxied bodies                       *)
(***************************************************************************)
PrefixOf(s, t) == Len(s) <= Len(t) /\ SubSeq(t, 1, Len(s)) = s

\* the bytes delivered to the sandbox are, in order, those the client sent
RequestBytesPreserved ==
    /\ PrefixOf(bs.upstream, bs.sent)
    /\ bs.pc \in {"receiving", "done"} => bs.upstream = bs.sent

\* the bytes delivered to the client are, in order, those the sandbox sent
ResponseBytesPreserved ==
    /\ PrefixOf(bs.client, bs.replied)
    /\ bs.pc = "done" => bs.client = bs.replied

\* C33: for every proxied request the body bytes delivered to the sandbox
\* equal the body bytes sent by the client, and the response body bytes
\* delivered to the client equal those sent by the sandbox, in order, with
\* nothing added, dropped or reordered.
C33_ByteFidelity == RequestBytesPreserved /\ ResponseBytesPreserved

=============================================================================
